---- MODULE Spec2Model ----
(***************************************************************************)
(* Model of the pipeline definition codec of lumeo_api_client:            *)
(* Pipeline (pipeline.rs), its serde Serialize / Deserialize impls, and    *)
(* the flexible definition decoders of deployments.rs.                     *)
(*                                                                         *)
(* Strings are sequences of symbols.  JSON values are records [k, v] whose *)
(* tag k selects the shape of v.  JSON text is a sequence of tokens.       *)
(***************************************************************************)
EXTENDS Integers, Sequences, FiniteSets

VARIABLES def, pipeline, op, arg, res, wire

vars == <<def, pipeline, op, arg, res, wire>>

----------------------------------------------------------------------------
(* Bounds of the model.                                                    *)

\* longest node array of a definition document
MaxNodes == 2

----------------------------------------------------------------------------
(* Strings (std String): sequences of symbols ordered bytewise.            *)

\* the symbols in ascending byte order
Alphabet == <<".", "a", "b", "code", "context", "g", "h", "i", "id", "message",
              "o", "p", "properties", "resource", "source_type", "type", "wires">>

Ord(c) == CHOOSE i \in 1..Len(Alphabet) : Alphabet[i] = c

\* str::cmp: lexicographic, a proper prefix is smaller
RECURSIVE StrLess(_, _)
StrLess(s, t) ==
    IF s = <<>> THEN t # <<>>
    ELSE IF t = <<>> THEN FALSE
    ELSE IF Head(s) = Head(t) THEN StrLess(Tail(s), Tail(t))
    ELSE Ord(Head(s)) < Ord(Head(t))

\* a mutation of the key order: shorter keys first, then bytewise
ShortLexLess(s, t) ==
    \/ Len(s) < Len(t)
    \/ Len(s) = Len(t) /\ StrLess(s, t)

\* the key order of BTreeMap<String, _> (Ord for String)
KeyLess(s, t) == StrLess(s, t)

\* the least key of a non-empty key set
MinKey(S) == CHOOSE x \in S : \A y \in S \ {x} : KeyLess(x, y)

RECURSIVE SortedKeys(_)
RECURSIVE SortedFrom(_, _)
\* BTreeMap::keys: the keys of a map in ascending order
SortedKeys(S) == IF S = {} THEN <<>> ELSE SortedFrom(S, MinKey(S))

SortedFrom(S, m) == <<m>> \o SortedKeys(S \ {m})

\* BTreeMap::insert: the value stored under the key is replaced
Insert(map, key, val) ==
    [x \in DOMAIN map \cup {key} |-> IF x = key THEN val ELSE map[x]]

----------------------------------------------------------------------------
(* JSON values (serde_json::Value) and JSON text (token sequences).        *)

JNull     == [k |-> "null", v |-> 0]
JBool(b)  == [k |-> "bool", v |-> b]
JNum(n)   == [k |-> "num",  v |-> n]
\* a string of symbols
JStr(s)   == [k |-> "str",  v |-> s]
\* a string whose contents are JSON text (a token sequence)
JTxt(t)   == [k |-> "txt",  v |-> t]
JArr(a)   == [k |-> "arr",  v |-> a]
\* an object: a function from keys (strings) to values
JObj(f)   == [k |-> "obj",  v |-> f]

IsString(j) == j.k \in {"str", "txt"}

Tok(k) == [k |-> k, v |-> 0]

StrTok(s) == [k |-> "str", v |-> s]

Comma(i) == IF i > 1 THEN <<Tok(",")>> ELSE <<>>

RECURSIVE ToText(_)
RECURSIVE ElemsText(_, _)
RECURSIVE FieldsText(_, _, _)
\* serde_json::to_string: the text of a value
ToText(j) ==
    CASE j.k = "null" -> <<Tok("null")>>
      [] j.k = "bool" -> <<[k |-> "bool", v |-> j.v]>>
      [] j.k = "num"  -> <<[k |-> "num", v |-> j.v]>>
      [] j.k = "str"  -> <<[k |-> "str", v |-> j.v]>>
      [] j.k = "txt"  -> <<[k |-> "txt", v |-> j.v]>>
      [] j.k = "arr"  -> <<Tok("[")>> \o ElemsText(j.v, 1) \o <<Tok("]")>>
      [] j.k = "obj"  -> <<Tok("{")>> \o FieldsText(j.v, SortedKeys(DOMAIN j.v), 1)
                                      \o <<Tok("}")>>

ElemsText(a, i) ==
    IF i > Len(a) THEN <<>>
    ELSE Comma(i) \o ToText(a[i]) \o ElemsText(a, i + 1)

FieldsText(f, keys, i) ==
    IF i > Len(keys) THEN <<>>
    ELSE Comma(i) \o <<StrTok(keys[i]), Tok(":")>> \o ToText(f[keys[i]])
         \o FieldsText(f, keys, i + 1)

\* the outcome of parsing at a position: the value and the next position
POk(val, next) == [ok |-> TRUE, val |-> val, next |-> next]
PErr           == [ok |-> FALSE, val |-> JNull, next |-> 0]

EmptyObj == [x \in {} |-> JNull]

RECURSIVE ParseValue(_, _)
RECURSIVE ParseElems(_, _, _)
RECURSIVE ParseElemsNext(_, _, _)
RECURSIVE ParseFields(_, _, _)
RECURSIVE ParseFieldsNext(_, _, _)
\* serde_json's parser: one value starting at token i
ParseValue(t, i) ==
    IF i > Len(t) THEN PErr
    ELSE CASE t[i].k = "null" -> POk(JNull, i + 1)
           [] t[i].k = "bool" -> POk(JBool(t[i].v), i + 1)
           [] t[i].k = "num"  -> POk(JNum(t[i].v), i + 1)
           [] t[i].k = "str"  -> POk(JStr(t[i].v), i + 1)
           [] t[i].k = "txt"  -> POk(JTxt(t[i].v), i + 1)
           [] t[i].k = "["    ->
                IF i + 1 <= Len(t) /\ t[i + 1].k = "]" THEN POk(JArr(<<>>), i + 2)
                ELSE ParseElems(t, i + 1, <<>>)
           [] t[i].k = "{"    ->
                IF i + 1 <= Len(t) /\ t[i + 1].k = "}" THEN POk(JObj(EmptyObj), i + 2)
                ELSE ParseFields(t, i + 1, EmptyObj)
           [] OTHER -> PErr

\* the elements of an array after "[" or ",", up to "]"
ParseElems(t, i, acc) == ParseElemsNext(t, acc, ParseValue(t, i))

\* after the element e: "]" ends the array, "," continues it
ParseElemsNext(t, acc, e) ==
    IF ~e.ok \/ e.next > Len(t) THEN PErr
    ELSE IF t[e.next].k = "]" THEN POk(JArr(Append(acc, e.val)), e.next + 1)
    ELSE IF t[e.next].k = "," THEN ParseElems(t, e.next + 1, Append(acc, e.val))
    ELSE PErr

\* the fields of an object after "{" or ",", up to "}"
ParseFields(t, i, acc) ==
    IF i + 1 > Len(t) \/ t[i].k # "str" \/ t[i + 1].k # ":" THEN PErr
    ELSE ParseFieldsNext(t, ParseValue(t, i + 2), [acc |-> acc, key |-> t[i].v])

\* after the field's value e; a repeated key keeps its last value
ParseFieldsNext(t, e, f) ==
    IF ~e.ok \/ e.next > Len(t) THEN PErr
    ELSE IF t[e.next].k = "}"
         THEN POk(JObj(Insert(f.acc, f.key, e.val)), e.next + 1)
    ELSE IF t[e.next].k = ","
         THEN ParseFields(t, e.next + 1, Insert(f.acc, f.key, e.val))
    ELSE PErr

\* the text t is one value p and nothing after it
WholeText(t, p) ==
    IF p.ok /\ p.next = Len(t) + 1 THEN [ok |-> TRUE, val |-> p.val]
    ELSE [ok |-> FALSE, val |-> JNull]

\* serde_json::from_str into a Value; a string of symbols that are no
\* tokens is a syntax error
FromText(j) ==
    IF j.k # "txt" THEN [ok |-> FALSE, val |-> JNull]
    ELSE WholeText(j.v, ParseValue(j.v, 1))

----------------------------------------------------------------------------
(* Option and Result values.                                               *)

None    == [k |-> "none", v |-> 0]
Some(x) == [k |-> "some", v |-> x]

NoErr  == [k |-> "noerr", v |-> 0]
Ok(x)  == [ok |-> TRUE,  val |-> Some(x), err |-> NoErr]
Err(e) == [ok |-> FALSE, val |-> None,    err |-> e]

\* serde::de::Error variants and the messages of this crate
InvalidType        == [k |-> "invalid_type", v |-> 0]
MissingField(f)    == [k |-> "missing_field", v |-> f]
UnknownVariant(t)  == [k |-> "unknown_variant", v |-> t]
BadPad(t)          == [k |-> "bad_pad", v |-> t]
Syntax             == [k |-> "syntax", v |-> 0]
\* "Destination node `{}` not found"
NotFound(id)       == [k |-> "not_found", v |-> id]
\* "Pipeline definition is null"
NullDefinition     == [k |-> "null_definition", v |-> 0]
\* de::Error::custom(e): the message of e, as a custom error
Custom(e)          == [k |-> "custom", v |-> e]

----------------------------------------------------------------------------
(* Pads (pipeline/pad.rs): SinkPad tokens and source pad sets.             *)

SinkPad(node, name) == [node |-> node, name |-> name]

\* a mutation of the split: at the last "."
LastDot(s) ==
    IF \E i \in 1..Len(s) : s[i] = "."
    THEN CHOOSE i \in 1..Len(s) : s[i] = "." /\ \A j \in (i + 1)..Len(s) : s[j] # "."
    ELSE 0

\* the position of the first "." of a token, 0 when it has none
FirstDot(s) ==
    IF \E i \in 1..Len(s) : s[i] = "."
    THEN CHOOSE i \in 1..Len(s) : s[i] = "." /\ \A j \in 1..(i - 1) : s[j] # "."
    ELSE 0

\* the token s split at position d: both sides non-empty
SplitAt(s, d) ==
    IF d = 0 \/ d = 1 \/ d = Len(s) THEN Err(BadPad(s))
    ELSE Ok(SinkPad(SubSeq(s, 1, d - 1), SubSeq(s, d + 1, Len(s))))

\* FromStr for SinkPad: split at the first '.'
SinkPad_from_str(s) == SplitAt(s, FirstDot(s))

\* Display for SinkPad: "<node>.<name>"
SinkPad_to_string(p) == p.node \o <<".">> \o p.name

NoPads == [x \in {} |-> <<>>]

\* SourcePads::all: the pads of a node, by name
SourcePads_all(pads) == SortedKeys(DOMAIN pads)

\* a pad's sinks as an array of tokens
SinksSerialize(sinks) ==
    JArr([i \in 1..Len(sinks) |-> JStr(SinkPad_to_string(sinks[i]))])

\* Serialize for SourcePads: a mapping padName -> [token, ...]
SourcePads_serialize(pads) ==
    JObj([n \in DOMAIN pads |-> SinksSerialize(pads[n])])

RECURSIVE SinksDeserialize(_, _, _)
RECURSIVE SinksNext(_, _, _)
\* the tokens of one pad, in order; the first bad token fails
SinksDeserialize(a, i, acc) ==
    IF i > Len(a) THEN Ok(acc)
    ELSE IF a[i].k # "str" THEN Err(InvalidType)
    ELSE SinksNext(a, [i |-> i, acc |-> acc], SinkPad_from_str(a[i].v))

SinksNext(a, at, s) ==
    IF ~s.ok THEN Err(s.err)
    ELSE SinksDeserialize(a, at.i + 1, Append(at.acc, s.val.v))

\* the pads decoded one by one into r: the first failure, or the pad set
PadsResult(r) ==
    IF \E n \in DOMAIN r : ~r[n].ok
    THEN Err(r[MinKey({n \in DOMAIN r : ~r[n].ok})].err)
    ELSE Ok([n \in DOMAIN r |-> r[n].val.v])

\* Deserialize for SourcePads
SourcePads_deserialize(j) ==
    IF j.k # "obj" THEN Err(InvalidType)
    ELSE IF \E n \in DOMAIN j.v : j.v[n].k # "arr" THEN Err(InvalidType)
    ELSE PadsResult([n \in DOMAIN j.v |-> SinksDeserialize(j.v[n].v, 1, <<>>)])

----------------------------------------------------------------------------
(* Node properties: the variant is selected by the tag `type`, and for a   *)
(* video source by the nested tag `source_type`.                           *)

Key(s) == <<s>>

Props(type, source) == [type |-> type, source |-> source]

Encode      == Props("encode", "none")
VideoCamera == Props("video", "camera")
VideoStream == Props("video", "stream")

\* Serialize for VideoSourceProperties: tag = "source_type"
VideoSourceProperties_serialize(p) ==
    [x \in {Key("source_type")} |-> JStr(Key(p.source))]

\* Serialize for NodeProperties: tag = "type"
NodeProperties_serialize(p) ==
    JObj(Insert(IF p.type = "video" THEN VideoSourceProperties_serialize(p) ELSE EmptyObj,
                Key("type"), JStr(Key(p.type))))

\* a mutation of the dispatch: an unknown tag is taken for a camera
SourceVariantOther(t) ==
    IF t.k # "str" THEN Err(InvalidType)
    ELSE IF t.v = Key("stream") THEN Ok(VideoStream)
    ELSE Ok(VideoCamera)

\* the variant named by the tag t
SourceVariant(t) ==
    IF t.k # "str" THEN Err(InvalidType)
    ELSE IF t.v = Key("camera") THEN Ok(VideoCamera)
    ELSE IF t.v = Key("stream") THEN Ok(VideoStream)
    ELSE Err(UnknownVariant(t.v))

\* Deserialize for VideoSourceProperties: Camera | Stream by `source_type`
VideoSourceProperties_deserialize(f) ==
    IF Key("source_type") \notin DOMAIN f THEN Err(MissingField("source_type"))
    ELSE SourceVariant(f[Key("source_type")])

\* the variant of the fields f named by the tag t
TypeVariant(f, t) ==
    IF t.k # "str" THEN Err(InvalidType)
    ELSE IF t.v = Key("encode") THEN Ok(Encode)
    ELSE IF t.v = Key("video") THEN VideoSourceProperties_deserialize(f)
    ELSE Err(UnknownVariant(t.v))

\* Deserialize for NodeProperties
NodeProperties_deserialize(j) ==
    IF j.k # "obj" THEN Err(InvalidType)
    ELSE IF Key("type") \notin DOMAIN j.v THEN Err(MissingField("type"))
    ELSE TypeVariant(j.v, j.v[Key("type")])

----------------------------------------------------------------------------
(* Node (pipeline/node.rs).                                                *)

\* Node::new(id, properties, source_pads): no validation
Node_new(id, properties, pads) ==
    [id |-> id, properties |-> properties,
     source_pads |-> IF pads.k = "none" THEN NoPads ELSE pads.v]

\* Serialize for Node: {"id", "properties", "wires"}
Node_serialize(n) ==
    JObj([x \in {Key("id"), Key("properties"), Key("wires")} |->
            IF x = Key("id") THEN JStr(n.id)
            ELSE IF x = Key("properties") THEN NodeProperties_serialize(n.properties)
            ELSE SourcePads_serialize(n.source_pads)])

\* the node of the decoded fields, or the first field's error
NodeOf(id, p, w) ==
    IF ~p.ok THEN Err(p.err)
    ELSE IF ~w.ok THEN Err(w.err)
    ELSE Ok(Node_new(id, p.val.v, w.val))

\* Deserialize for Node: `wires` defaults to no pads
Node_deserialize(j) ==
    IF j.k # "obj" THEN Err(InvalidType)
    ELSE IF Key("id") \notin DOMAIN j.v THEN Err(MissingField("id"))
    ELSE IF j.v[Key("id")].k # "str" THEN Err(InvalidType)
    ELSE IF Key("properties") \notin DOMAIN j.v THEN Err(MissingField("properties"))
    ELSE NodeOf(j.v[Key("id")].v,
                NodeProperties_deserialize(j.v[Key("properties")]),
                IF Key("wires") \in DOMAIN j.v
                THEN SourcePads_deserialize(j.v[Key("wires")])
                ELSE Ok(NoPads))

RECURSIVE VecNode_elems(_, _, _)
RECURSIVE VecNode_next(_, _, _)
\* the elements of the sequence in order, each a Node; the first error wins
VecNode_elems(a, i, acc) ==
    IF i > Len(a) THEN Ok(acc)
    ELSE VecNode_next(a, [i |-> i, acc |-> acc], Node_deserialize(a[i]))

\* a mutation of the element loop: a node that fails to parse is left out
VecNode_next_skip(a, at, n) ==
    IF ~n.ok THEN VecNode_elems(a, at.i + 1, at.acc)
    ELSE VecNode_elems(a, at.i + 1, Append(at.acc, n.val.v))

VecNode_next(a, at, n) ==
    IF ~n.ok THEN Err(n.err)
    ELSE VecNode_elems(a, at.i + 1, Append(at.acc, n.val.v))

\* <Vec<Node>>::deserialize
VecNode_deserialize(j) ==
    IF j.k # "arr" THEN Err(InvalidType)
    ELSE VecNode_elems(j.v, 1, <<>>)

----------------------------------------------------------------------------
(* Pipeline (pipeline.rs).                                                 *)

\* Pipeline::new: no nodes
Pipeline_new == [nodes |-> [x \in {} |-> 0]]

\* a mutation of add_node: an existing node is kept (first wins)
add_node_keep_first(p, node) ==
    IF node.id \in DOMAIN p.nodes THEN p
    ELSE [nodes |-> Insert(p.nodes, node.id, node)]

\* a mutation of add_node: every node is filed under one fixed key
add_node_misfiled(p, node) == [nodes |-> Insert(p.nodes, <<"g">>, node)]

\* Pipeline::add_node: BTreeMap::insert under the node's own id
add_node(p, node) == [nodes |-> Insert(p.nodes, node.id, node)]

\* the values of a map under the keys, in their order
ValuesAt(map, keys) == [i \in 1..Len(keys) |-> map[keys[i]]]

\* a mutation of nodes: the values in descending key order
nodes_descending(p) ==
    [i \in 1..Cardinality(DOMAIN p.nodes) |->
        p.nodes[SortedKeys(DOMAIN p.nodes)[Cardinality(DOMAIN p.nodes) + 1 - i]]]

\* Pipeline::nodes: the values of the map, in key order
nodes(p) == ValuesAt(p.nodes, SortedKeys(DOMAIN p.nodes))

\* Pipeline::node_by_id
node_by_id(p, id) ==
    IF id \in DOMAIN p.nodes THEN Some(p.nodes[id]) ELSE None

\* serialize_seq: one element per node, in the order of the iterator
SerializeSeq(ns) == JArr([i \in 1..Len(ns) |-> Node_serialize(ns[i])])

\* a mutation of serialize: the nodes inside a wrapping object
Pipeline_serialize_wrapped(p) ==
    JObj([x \in {Key("nodes")} |-> SerializeSeq(nodes(p))])

\* Serialize for Pipeline: a sequence of the nodes, in the map's order
Pipeline_serialize(p) == SerializeSeq(nodes(p))

RECURSIVE AddAll(_, _, _)
\* for node in nodes { pipeline.add_node(node) }
AddAll(p, ns, i) ==
    IF i > Len(ns) THEN p ELSE AddAll(add_node(p, ns[i]), ns, i + 1)

RECURSIVE PadSinks(_, _, _)
\* the sinks of a node's pads, pad after pad
PadSinks(n, pads, i) ==
    IF i > Len(pads) THEN <<>>
    ELSE n.source_pads[pads[i]] \o PadSinks(n, pads, i + 1)

RECURSIVE AllSinks(_, _)
\* the sinks the validation loop visits, in its order: nodes, pads, sinks
AllSinks(ns, i) ==
    IF i > Len(ns) THEN <<>>
    ELSE PadSinks(ns[i], SourcePads_all(ns[i].source_pads), 1) \o AllSinks(ns, i + 1)

RECURSIVE LookupSinks(_, _, _)
\* node_by_id(&sink.node).ok_or_else(..)?  for each sink: the first sink
\* whose node is not in the map ends the decode
LookupSinks(p, sinks, i) ==
    IF i > Len(sinks) THEN Ok(p)
    ELSE IF node_by_id(p, sinks[i].node).k = "none" THEN Err(NotFound(sinks[i].node))
    ELSE LookupSinks(p, sinks, i + 1)

RECURSIVE LookupDeclared(_, _, _)
\* a mutation of the lookup: the destination must also have a pad of the
\* sink's name
LookupDeclared(p, sinks, i) ==
    IF i > Len(sinks) THEN Ok(p)
    ELSE IF node_by_id(p, sinks[i].node).k = "none" THEN Err(NotFound(sinks[i].node))
    ELSE IF sinks[i].name \notin DOMAIN node_by_id(p, sinks[i].node).v.source_pads
         THEN Err(NotFound(sinks[i].node))
    ELSE LookupDeclared(p, sinks, i + 1)

\* the ids the sinks of the node under x name, among the nodes of p
WiredTo(p, x) ==
    { y \in DOMAIN p.nodes :
        \E pd \in DOMAIN p.nodes[x].source_pads :
            \E i \in 1..Len(p.nodes[x].source_pads[pd]) :
                p.nodes[x].source_pads[pd][i].node = y }

RECURSIVE Reached(_, _, _)
\* the ids reached from the ids of `from` along at most n wires
Reached(p, from, n) ==
    IF n = 0 THEN from
    ELSE Reached(p, from \cup UNION { WiredTo(p, x) : x \in from }, n - 1)

\* the ids that lie on a cycle of wires, a wire to oneself included
OnCycle(p) ==
    { x \in DOMAIN p.nodes :
        x \in Reached(p, WiredTo(p, x), Cardinality(DOMAIN p.nodes)) }

\* a mutation of the check: a pipeline with a cycle of wires is refused
CheckSinksAcyclic(p) ==
    IF OnCycle(p) # {} THEN Err(NotFound(CHOOSE x \in OnCycle(p) : TRUE))
    ELSE LookupSinks(p, AllSinks(nodes(p), 1), 1)

\* a mutation of the check: pad names are checked too
CheckSinksDeclared(p) == LookupDeclared(p, AllSinks(nodes(p), 1), 1)

\* a mutation of the check: a missing destination is let through
CheckSinksNone(p) == Ok(p)

\* a mutation of the check: the first sink of the pipeline is not looked up
CheckSinksSkipFirst(p) == LookupSinks(p, AllSinks(nodes(p), 1), 2)

\* "Ensure all sink pads are setup correctly"
CheckSinks(p) == LookupSinks(p, AllSinks(nodes(p), 1), 1)

RECURSIVE AddChecked(_, _, _)
\* a mutation of the decode: the sinks are looked up as each node is added
AddChecked(p, ns, i) ==
    IF i > Len(ns) THEN Ok(p)
    ELSE IF ~CheckSinks(add_node(p, ns[i])).ok THEN CheckSinks(add_node(p, ns[i]))
    ELSE AddChecked(add_node(p, ns[i]), ns, i + 1)

\* a mutation of the decode: validation while indexing
PipelineOfEager(v) ==
    IF ~v.ok THEN Err(v.err)
    ELSE AddChecked(Pipeline_new, v.val.v, 1)

\* the pipeline of the decoded nodes v, validated
PipelineOf(v) ==
    IF ~v.ok THEN Err(v.err)
    ELSE CheckSinks(AddAll(Pipeline_new, v.val.v, 1))

\* Deserialize for Pipeline
Pipeline_deserialize(j) == PipelineOf(VecNode_deserialize(j))

----------------------------------------------------------------------------
(* The flexible definition decoders (deployments.rs).                      *)

\* Pipeline from parsed text
PipelineOfText(t) ==
    IF ~t.ok THEN Err(Syntax) ELSE Pipeline_deserialize(t.val)

\* serde_json::from_str::<Pipeline>
from_str_Pipeline(j) == PipelineOfText(FromText(j))

\* Option<Pipeline> from parsed text: null is None
OptionPipelineOfText(t) ==
    IF ~t.ok THEN Err(Syntax)
    ELSE IF t.val.k = "null" THEN [ok |-> TRUE, val |-> None, err |-> NoErr]
    ELSE Pipeline_deserialize(t.val)

\* serde_json::from_str::<Option<Pipeline>>
from_str_Option_Pipeline(j) == OptionPipelineOfText(FromText(j))

\* map_err(de::Error::custom)
MapErrCustom(r) == IF r.ok THEN r ELSE Err(Custom(r.err))

\* PipelineVisitor::visit_str, Value = Option<Pipeline>
visit_str(j) == MapErrCustom(from_str_Option_Pipeline(j))

\* PipelineVisitor::visit_unit
visit_unit == [ok |-> TRUE, val |-> None, err |-> NoErr]

\* the pipeline of the decoded nodes v, not validated
UncheckedPipelineOf(v) ==
    IF ~v.ok THEN Err(v.err) ELSE Ok(AddAll(Pipeline_new, v.val.v, 1))

\* a mutation of visit_seq: the native array is indexed but not validated
visit_seq_unchecked(j) == UncheckedPipelineOf(VecNode_deserialize(j))

\* PipelineVisitor::visit_seq
visit_seq(j) == Pipeline_deserialize(j)

\* a mutation of the visitor: every shape not overridden is no definition
deserialize_any_lenient(j) ==
    IF IsString(j) THEN visit_str(j)
    ELSE IF j.k = "arr" THEN visit_seq(j)
    ELSE visit_unit

\* deserialize_pipeline_def_optionally: deserialize_any hands the value to
\* the visitor method of its shape; the methods not overridden fail
deserialize_pipeline_def_optionally(j) ==
    IF IsString(j) THEN visit_str(j)
    ELSE IF j.k = "null" THEN visit_unit
    ELSE IF j.k = "arr" THEN visit_seq(j)
    ELSE Err(InvalidType)

\* a mutation of the required variant: the absent result is passed on
ok_or_absent(r) == r

\* .ok_or_else(|| de::Error::custom("Pipeline definition is null"))
ok_or_null_definition(r) ==
    IF ~r.ok THEN r
    ELSE IF r.val.k = "none" THEN Err(NullDefinition)
    ELSE r

\* deserialize_pipeline_def
deserialize_pipeline_def(j) ==
    ok_or_null_definition(deserialize_pipeline_def_optionally(j))

\* src/deployments.rs deserialize_pipeline_def: Value = Pipeline, no
\* visit_unit
legacy_deserialize_pipeline_def(j) ==
    IF IsString(j) THEN MapErrCustom(from_str_Pipeline(j))
    ELSE IF j.k = "arr" THEN Pipeline_deserialize(j)
    ELSE Err(InvalidType)

----------------------------------------------------------------------------
(* The documents and nodes of the model.                                   *)

\* node ids: "ab" sorts before "b" although it is longer
NodeIds == {<<"a", "b">>, <<"b">>}

\* an id no node of the model has
Ghost == <<"g">>

\* sink tokens: "ab.i", "b.i", "g.i", and "g", which has no '.'
TokAB == <<"a", "b", ".", "i">>
TokB  == <<"b", ".", "i">>
TokG  == <<"g", ".", "i">>
TokNoDot == <<"g">>
\* "b.h": the pad "h" of node b
TokBH == <<"b", ".", "h">>
\* "h.i": h is a second id no node of the model has
TokH == <<"h", ".", "i">>

Wires1(name, toks) ==
    JObj([x \in {name} |-> JArr([i \in 1..Len(toks) |-> JStr(toks[i])])])

\* the `wires` of the documents' nodes
RawWires ==
    { JObj(EmptyObj),
      Wires1(Key("o"), <<TokAB>>),
      Wires1(Key("o"), <<TokB>>),
      Wires1(Key("o"), <<TokG>>),
      Wires1(Key("o"), <<TokB, TokG>>),
      Wires1(Key("o"), <<TokNoDot>>),
      Wires1(Key("o"), <<TokBH>>) }

\* the `properties` of the documents' nodes; "bogus" is no node kind and
\* "tape" no kind of video source
RawProps ==
    { JObj([x \in {Key("type")} |-> JStr(Key("encode"))]),
      JObj([x \in {Key("type"), Key("source_type")} |->
              IF x = Key("type") THEN JStr(Key("video")) ELSE JStr(Key("camera"))]),
      JObj([x \in {Key("type"), Key("source_type")} |->
              IF x = Key("type") THEN JStr(Key("video")) ELSE JStr(Key("tape"))]),
      JObj([x \in {Key("type")} |-> JStr(Key("bogus"))]) }

\* wirings with two absent destinations: in one list, and on two pads
OrderWires ==
    { Wires1(Key("o"), <<TokH>>),
      Wires1(Key("o"), <<TokH, TokG>>),
      JObj([x \in {Key("o"), Key("p")} |->
              IF x = Key("o") THEN JArr(<<JStr(TokH)>>) ELSE JArr(<<JStr(TokG)>>)]) }

RawNode(id, props, wires) ==
    JObj([x \in {Key("id"), Key("properties"), Key("wires")} |->
            IF x = Key("id") THEN JStr(id)
            ELSE IF x = Key("properties") THEN props
            ELSE wires])

\* the node records: encode nodes with every wiring, the others unwired,
\* and the node ab with the wirings of two absent destinations
RawNodes ==
    { RawNode(id, JObj([x \in {Key("type")} |-> JStr(Key("encode"))]), w) :
          id \in NodeIds, w \in RawWires }
        \cup { RawNode(id, p, JObj(EmptyObj)) : id \in NodeIds, p \in RawProps }
        \cup { RawNode(<<"a", "b">>, JObj([x \in {Key("type")} |-> JStr(Key("encode"))]), w) :
                   w \in OrderWires }

\* the sequences of `shorter`, and those of length n - 1 with one more element
Longer(S, shorter, n) ==
    shorter \cup { Append(q, x) : q \in {r \in shorter : Len(r) = n - 1}, x \in S }

RECURSIVE SeqsUpTo(_, _)
\* the sequences over S of length at most n
SeqsUpTo(S, n) ==
    IF n = 0 THEN {<<>>}
    ELSE Longer(S, SeqsUpTo(S, n - 1), n)

\* native node arrays
ArrayDefs == { JArr(a) : a \in SeqsUpTo(RawNodes, MaxNodes) }

\* the same arrays, serialized into a JSON string
StringDefs == { JTxt(ToText(d)) : d \in ArrayDefs }

\* definitions of every other shape, and strings holding something else
\* than one array
OtherDefs ==
    { JNull, JBool(TRUE), JNum(1), JObj(EmptyObj), JStr(<<"a", "b">>),
      JTxt(ToText(JNull)), JTxt(ToText(JNum(1))), JTxt(ToText(JBool(TRUE))),
      JTxt(ToText(JObj(EmptyObj))), JTxt(ToText(JStr(<<"a", "b">>))),
      JTxt(ToText(JTxt(ToText(JArr(<<>>))))),
      JTxt(<<Tok("[")>>), JTxt(<<>>),
      JTxt(ToText(JArr(<<>>)) \o ToText(JArr(<<>>))) }

Defs == ArrayDefs \cup StringDefs \cup OtherDefs

\* the source pads handed to Node::new; one sink has an empty pad name
NewPads ==
    { None,
      Some([x \in {Key("o")} |-> <<SinkPad(<<"a", "b">>, Key("i"))>>]),
      Some([x \in {Key("o")} |-> <<SinkPad(<<"b">>, Key("i"))>>]),
      Some([x \in {Key("o")} |-> <<SinkPad(Ghost, Key("i"))>>]),
      Some([x \in {Key("o")} |-> <<SinkPad(<<"b">>, <<>>)>>]),
      Some([x \in {Key("o"), Key("p")} |->
              IF x = Key("o") THEN <<>> ELSE <<SinkPad(<<"b">>, Key("i"))>>]) }

\* the nodes handed to add_node
Nodes ==
    { Node_new(id, Encode, w) : id \in NodeIds, w \in NewPads }
        \cup { Node_new(id, VideoCamera, None) : id \in NodeIds }

----------------------------------------------------------------------------
(* The state machine: a caller that holds a definition document, decodes   *)
(* it, or builds a Pipeline with add_node, encodes it and decodes the      *)
(* encoding.                                                               *)
(*   def       the definition document not yet decoded, NoDoc or Taken    *)
(*   pipeline  the Pipeline the caller holds: Some(p) or None              *)
(*   op, arg   the last operation and its argument                         *)
(*   res       the Result of the last decode                               *)
(*   wire      the text of the last encode and the Pipeline it encodes     *)

\* no document was received / the document was moved into a decode
NoDoc  == [k |-> "nodoc", v |-> 0]
Taken  == [k |-> "taken", v |-> 0]
NoArg  == [k |-> "noarg", v |-> 0]
NoRes  == [ok |-> FALSE, val |-> None, err |-> NoErr]

Init ==
    /\ \/ def \in Defs /\ pipeline = None
       \/ def = NoDoc /\ pipeline = Some(Pipeline_new)
    /\ op = "init"
    /\ arg = NoArg
    /\ res = NoRes
    /\ wire = None

\* the caller decodes its document with `decode` and holds what it yields
Decode(name, r) ==
    /\ def \notin {NoDoc, Taken}
    /\ op' = name
    /\ arg' = def
    /\ res' = r
    /\ pipeline' = IF r.ok /\ r.val.k = "some" THEN r.val ELSE None
    /\ def' = Taken
    /\ UNCHANGED wire

\* serde_json::from_value::<Pipeline>(def)
FromValue == Decode("deserialize", Pipeline_deserialize(def))

\* Deployment.definition
DeserializePipelineDef == Decode("deserialize_pipeline_def", deserialize_pipeline_def(def))

\* ListDeploymentElement.definition
DeserializePipelineDefOptionally ==
    Decode("deserialize_pipeline_def_optionally", deserialize_pipeline_def_optionally(def))

\* Deployment.definition of src/deployments.rs
LegacyDeserializePipelineDef ==
    Decode("legacy_deserialize_pipeline_def", legacy_deserialize_pipeline_def(def))

\* pipeline.add_node(node)
AddNode ==
    /\ pipeline.k = "some"
    /\ \E n \in Nodes :
         /\ pipeline' = Some(add_node(pipeline.v, n))
         /\ arg' = Some(n)
    /\ op' = "add_node"
    /\ res' = NoRes
    /\ UNCHANGED <<def, wire>>

\* serde_json::to_string(&pipeline)
Serialize ==
    /\ pipeline.k = "some"
    /\ wire' = Some([text |-> JTxt(ToText(Pipeline_serialize(pipeline.v))), of |-> pipeline.v])
    /\ op' = "to_string"
    /\ arg' = pipeline
    /\ res' = NoRes
    /\ UNCHANGED <<def, pipeline>>

\* serde_json::from_str::<Pipeline>(&json) of the text encoded last
FromStr ==
    /\ wire.k = "some"
    /\ res' = from_str_Pipeline(wire.v.text)
    /\ op' = "from_str"
    /\ arg' = wire.v.text
    /\ UNCHANGED <<def, pipeline, wire>>

Next ==
    \/ FromValue
    \/ DeserializePipelineDef
    \/ DeserializePipelineDefOptionally
    \/ LegacyDeserializePipelineDef
    \/ AddNode
    \/ Serialize
    \/ FromStr

Spec == Init /\ [][Next]_vars

----------------------------------------------------------------------------
(* What the claims speak of, stated on the documents themselves.           *)

\* the operations that decode a definition document, and the flexible ones
DecodeOps == {"deserialize", "deserialize_pipeline_def",
              "deserialize_pipeline_def_optionally", "legacy_deserialize_pipeline_def"}
FlexOps   == DecodeOps \ {"deserialize"}

\* the id of a node record of the documents
RawId(raw) == raw.v[Key("id")].v

\* the ids of a node array
ArrayIds(a) == { RawId(a[i]) : i \in 1..Len(a) }

\* every node record of the array parses
AllParse(a) == \A i \in 1..Len(a) : Node_deserialize(a[i]).ok

\* the place of the last record with the id
LastIndex(a, id) ==
    CHOOSE i \in 1..Len(a) : RawId(a[i]) = id /\ \A j \in (i + 1)..Len(a) : RawId(a[j]) # id

\* the node that survives indexing under the id
Survivor(a, id) == Node_deserialize(a[LastIndex(a, id)]).val.v

\* the node ids a node's sinks name
SinkIds(n) ==
    UNION { { n.source_pads[pd][i].node : i \in 1..Len(n.source_pads[pd]) } :
            pd \in DOMAIN n.source_pads }

\* the ids named by a sink of a surviving node and borne by no node
DanglingIds(a) == (UNION { SinkIds(Survivor(a, id)) : id \in ArrayIds(a) }) \ ArrayIds(a)

\* every sink of the pipeline names one of its nodes
Referential(p) == \A id \in DOMAIN p.nodes : SinkIds(p.nodes[id]) \subseteq DOMAIN p.nodes

\* some node of the pipeline has a sink
HasSink(p) == \E id \in DOMAIN p.nodes : SinkIds(p.nodes[id]) # {}

\* two nodes of the array share an id
HasDuplicate(a) == \E i, j \in 1..Len(a) : i < j /\ RawId(a[i]) = RawId(a[j])

----------------------------------------------------------------------------
(* C1..C5: Pipeline decode, add_node, encode.                              *)

\* C1: when every node of the array parses, Pipeline decode fails exactly
\* when a sink of a surviving node names an id that no node of the array
\* bears, and the error then names such an id.
C1_DanglingRejected ==
    (op = "deserialize" /\ arg.k = "arr" /\ AllParse(arg.v)) =>
        IF DanglingIds(arg.v) # {}
        THEN ~res.ok /\ res.err.k = "not_found" /\ res.err.v \in DanglingIds(arg.v)
        ELSE res.ok

\* a single node wired to "g.i" was decoded, and the error names g
C1_Witness ==
    /\ op = "deserialize" /\ arg.k = "arr" /\ Len(arg.v) = 1
    /\ AllParse(arg.v) /\ DanglingIds(arg.v) = {Ghost}
    /\ ~res.ok /\ res.err = NotFound(Ghost)

\* C2 as claimed: every Pipeline the caller holds, decoded or built with
\* add_node, is referential.
C2_Original == pipeline.k = "some" => Referential(pipeline.v)

\* C2, amended: every Pipeline a decode returns is referential.
C2_DecodedReferential ==
    (res.ok /\ res.val.k = "some") => Referential(res.val.v)

\* a decode returned a pipeline with a sink
C2_Witness ==
    /\ op \in DecodeOps /\ res.ok /\ res.val.k = "some"
    /\ HasSink(res.val.v) /\ Cardinality(DOMAIN res.val.v.nodes) = 2

\* C3: an array with a repeated id whose nodes all parse decodes unless a
\* surviving sink dangles, and then holds, under each id, the last node of
\* the array with that id.
C3_LastWins ==
    (op = "deserialize" /\ arg.k = "arr" /\ AllParse(arg.v) /\ HasDuplicate(arg.v)) =>
        /\ ~res.ok => (res.err.k = "not_found" /\ res.err.v \notin ArrayIds(arg.v))
        /\ DanglingIds(arg.v) = {} => res.ok
        /\ res.ok =>
             /\ DOMAIN res.val.v.nodes = ArrayIds(arg.v)
             /\ \A id \in ArrayIds(arg.v) : res.val.v.nodes[id] = Survivor(arg.v, id)

\* [ab: encode, ab: video] was decoded into one node, the video one
C3_Witness ==
    /\ op = "deserialize" /\ arg.k = "arr" /\ Len(arg.v) = 2 /\ HasDuplicate(arg.v)
    /\ Node_deserialize(arg.v[1]).ok /\ Node_deserialize(arg.v[1]).val.v.properties = Encode
    /\ res.ok /\ DOMAIN res.val.v.nodes = {<<"a", "b">>}
    /\ res.val.v.nodes[<<"a", "b">>].properties = VideoCamera

\* j is a flat array with one node object per node of p, in strictly
\* ascending order of id
FlatSortedArray(j, p) ==
    /\ j.k = "arr"
    /\ Len(j.v) = Cardinality(DOMAIN p.nodes)
    /\ \A i \in 1..Len(j.v) : j.v[i].k = "obj" /\ RawId(j.v[i]) \in DOMAIN p.nodes
    /\ \A i \in 1..(Len(j.v) - 1) : StrLess(RawId(j.v[i]), RawId(j.v[i + 1]))

\* the parsed text is such an array
FlatSortedText(t, p) == t.ok /\ FlatSortedArray(t.val, p)

\* C4: the text of an encoded Pipeline is a flat array of its nodes in
\* strictly ascending order of id.
C4_EncodeSorted ==
    wire.k = "some" => FlatSortedText(FromText(wire.v.text), wire.v.of)

\* a pipeline of the nodes b and ab was encoded
C4_Witness ==
    /\ op = "to_string" /\ wire.k = "some"
    /\ DOMAIN wire.v.of.nodes = {<<"a", "b">>, <<"b">>}
    /\ RawId(FromText(wire.v.text).val.v[1]) = <<"a", "b">>

\* every sink has a node id and a pad name that its token gives back
TokensReparse(p) ==
    \A id \in DOMAIN p.nodes : \A pd \in DOMAIN p.nodes[id].source_pads :
        \A i \in 1..Len(p.nodes[id].source_pads[pd]) :
            SinkPad_from_str(SinkPad_to_string(p.nodes[id].source_pads[pd][i]))
                = Ok(p.nodes[id].source_pads[pd][i])

----------------------------------------------------------------------------
(* C6..C10: the flexible definition decoders.                              *)

\* the flexible decoder of the name
Flex(name, j) ==
    CASE name = "deserialize_pipeline_def" -> deserialize_pipeline_def(j)
      [] name = "deserialize_pipeline_def_optionally" -> deserialize_pipeline_def_optionally(j)
      [] name = "legacy_deserialize_pipeline_def" -> legacy_deserialize_pipeline_def(j)

\* both succeed with equal values, or both fail
SameOutcome(r, s) == r.ok = s.ok /\ (r.ok => r.val = s.val)

\* the text holds exactly one array
HoldsArray(t) == t.ok /\ t.val.k = "arr"

\* C6: each flexible decoder gives, for a native array and for the string
\* holding that array's serialization, equal Pipelines, and fails on one
\* exactly when it fails on the other.
C6_DualShape ==
    op \in FlexOps =>
        /\ arg.k = "arr" => SameOutcome(res, Flex(op, JTxt(ToText(arg))))
        /\ (arg.k = "txt" /\ HoldsArray(FromText(arg))) =>
               SameOutcome(res, Flex(op, FromText(arg).val))

\* the optional variant decoded a string holding a two-node array with a
\* sink, as the native array decodes
C6_Witness ==
    /\ op = "deserialize_pipeline_def_optionally" /\ arg.k = "txt"
    /\ HoldsArray(FromText(arg)) /\ Len(FromText(arg).val.v) = 2
    /\ res.ok /\ res.val.k = "some" /\ HasSink(res.val.v)
    /\ res.val = deserialize_pipeline_def_optionally(FromText(arg).val).val

\* C7: a null definition is the absent result, without error, in the
\* optional variant, and the error "Pipeline definition is null", with no
\* Pipeline, in the required variant.
C7_NullDefinition ==
    arg.k = "null" =>
        /\ op = "deserialize_pipeline_def_optionally" =>
               (res.ok /\ res.val = None /\ res.err = NoErr)
        /\ op = "deserialize_pipeline_def" =>
               (~res.ok /\ res.err = NullDefinition /\ res.val = None /\ pipeline = None)

\* the required variant refused a null definition
C7_Witness ==
    /\ op = "deserialize_pipeline_def" /\ arg = JNull
    /\ ~res.ok /\ res.err = NullDefinition /\ pipeline = None

\* the optional variant took a null definition as absent
C7_WitnessOptional ==
    /\ op = "deserialize_pipeline_def_optionally" /\ arg = JNull
    /\ res.ok /\ res.val = None

\* the result r is what decoding the parsed contents t as the array form
\* gives: a failure unless t is an array that decodes
AsArrayForm(r, t) ==
    IF HoldsArray(t) THEN SameOutcome(r, Pipeline_deserialize(t.val)) ELSE ~r.ok

\* C8 as claimed: a string definition succeeds exactly when its contents
\* are the serialization of a valid node array, with that array's Pipeline;
\* contents that are anything else, the literal null among them, fail.
C8_Original ==
    (op \in FlexOps /\ IsString(arg)) => AsArrayForm(res, FromText(arg))

\* the optional variant took the string "null" as the absent result
C8_NullText ==
    /\ op = "deserialize_pipeline_def_optionally"
    /\ arg = JTxt(ToText(JNull))
    /\ res.ok /\ res.val = None

\* C9: a definition that is a boolean, a number or an object, or null
\* outside the optional variant, fails in every flexible decoder, with no
\* Pipeline and no absent result.
C9_OtherShapesFail ==
    (/\ op \in FlexOps
     /\ \/ arg.k \in {"bool", "num", "obj"}
        \/ arg.k = "null" /\ op # "deserialize_pipeline_def_optionally") =>
        (~res.ok /\ res.val = None /\ pipeline = None)

\* the optional variant refused an object
C9_Witness ==
    /\ op = "deserialize_pipeline_def_optionally" /\ arg = JObj(EmptyObj)
    /\ ~res.ok /\ res.err = InvalidType /\ pipeline = None

\* the decoder was handed the node array, natively or, for a flexible
\* decoder, in a string
Handed(name, j) ==
    \/ j.k = "arr"
    \/ name \in FlexOps /\ HoldsArray(FromText(j))

\* the node array handed over
HandedArray(j) == IF j.k = "arr" THEN j.v ELSE FromText(j).val.v

\* p is the whole array, validated
WholePipeline(p, a) ==
    /\ AllParse(a)
    /\ DanglingIds(a) = {}
    /\ DOMAIN p.nodes = ArrayIds(a)
    /\ \A id \in ArrayIds(a) : p.nodes[id] = Survivor(a, id)
    /\ Referential(p)

\* some node of the array fails to parse, or a surviving sink dangles
Flawed(a) == ~AllParse(a) \/ DanglingIds(a) # {}

----------------------------------------------------------------------------
(* C11: add_node.                                                          *)

\* q is p with the node n stored under its id and nothing else changed
Framed(p, q, n) ==
    /\ node_by_id(q, n.id) = Some(n)
    /\ DOMAIN q.nodes = DOMAIN p.nodes \cup {n.id}
    /\ Cardinality(DOMAIN q.nodes) =
           IF n.id \in DOMAIN p.nodes THEN Cardinality(DOMAIN p.nodes)
           ELSE Cardinality(DOMAIN p.nodes) + 1
    /\ \A id \in DOMAIN p.nodes \ {n.id} : q.nodes[id] = p.nodes[id]

\* C11: add_node(n) leaves a Pipeline in which node_by_id(n.id) is n, the
\* node count is unchanged when the id was present and one more otherwise,
\* and every node under another id is as before; the call gives no error.
C11_AddNodeFrame ==
    [][op' = "add_node" =>
          /\ pipeline.k = "some" /\ pipeline'.k = "some" /\ arg'.k = "some"
          /\ Framed(pipeline.v, pipeline'.v, arg'.v)
          /\ res' = NoRes]_vars

\* after an encoding of two nodes, add_node replaced the node under one id
\* and left the other as it was encoded
C11_Witness ==
    /\ op = "add_node" /\ wire.k = "some" /\ pipeline.k = "some"
    /\ DOMAIN wire.v.of.nodes = NodeIds /\ DOMAIN pipeline.v.nodes = NodeIds
    /\ node_by_id(pipeline.v, arg.v.id) = arg
    /\ wire.v.of.nodes[arg.v.id] # arg.v
    /\ \A id \in NodeIds \ {arg.v.id} : pipeline.v.nodes[id] = wire.v.of.nodes[id]

----------------------------------------------------------------------------
(* Scalar micro-formats.  Strings are sequences of characters here.        *)

\* most ':'-separated tokens of a crop string of the model
MaxCropTokens == 5

Digits == <<"0", "1", "2", "3", "4", "5", "6", "7", "8", "9">>

IsDigit(c) == \E i \in 1..10 : Digits[i] = c

DigitVal(c) == (CHOOSE i \in 1..10 : Digits[i] = c) - 1

RECURSIVE SplitFrom(_, _, _, _)
\* str::split(sep): the pieces between the separators, empty ones included
SplitFrom(s, sep, i, cur) ==
    IF i > Len(s) THEN <<cur>>
    ELSE IF s[i] = sep THEN <<cur>> \o SplitFrom(s, sep, i + 1, <<>>)
    ELSE SplitFrom(s, sep, i + 1, Append(cur, s[i]))

Split(s, sep) == SplitFrom(s, sep, 1, <<>>)

InvalidDigit == [k |-> "invalid_digit", v |-> 0]
EmptyNumber  == [k |-> "empty", v |-> 0]

RECURSIVE DigitsValue(_, _, _)
\* the digits of an unsigned number, most significant first; the numbers of
\* the model stay far below the maximum of the type
DigitsValue(s, i, acc) ==
    IF i > Len(s) THEN Ok(acc)
    ELSE IF ~IsDigit(s[i]) THEN Err(InvalidDigit)
    ELSE DigitsValue(s, i + 1, acc * 10 + DigitVal(s[i]))

\* str::parse for an unsigned integer type: one leading '+' is allowed, a
\* sign alone or a '-' is an invalid digit
parse_unsigned(s) ==
    IF s = <<>> THEN Err(EmptyNumber)
    ELSE IF Len(s) = 1 /\ s[1] \in {"+", "-"} THEN Err(InvalidDigit)
    ELSE IF s[1] = "+" THEN DigitsValue(s, 2, 0)
    ELSE DigitsValue(s, 1, 0)

RECURSIVE ToDecimal(_)
\* Display for an unsigned integer
ToDecimal(n) ==
    IF n < 10 THEN <<Digits[n + 1]>>
    ELSE ToDecimal(n \div 10) \o <<Digits[(n % 10) + 1]>>

----------------------------------------------------------------------------
(* Crop (transform_properties.rs).                                         *)

Crop(top, bottom, left, right) ==
    [top |-> top, bottom |-> bottom, left |-> left, right |-> right]

\* "Failed to parse crop region string: {s}"
CropParseError(s) == [k |-> "crop_parse", v |-> s]
\* "Bad resolution format: {s}"
CropFormatError(s) == [k |-> "crop_format", v |-> s]

\* the four parsed tokens, all of which must be numbers
CropOfParsed(s, left, right, top, bottom) ==
    IF left.ok /\ right.ok /\ top.ok /\ bottom.ok
    THEN Ok(Crop(top.val.v, bottom.val.v, left.val.v, right.val.v))
    ELSE Err(CropParseError(s))

\* a mutation of the match: the first four of four or more tokens are taken
CropOfTokensAtLeastFour(s, t) ==
    IF Len(t) < 4 THEN Err(CropFormatError(s))
    ELSE CropOfParsed(s, parse_unsigned(t[1]), parse_unsigned(t[2]),
                      parse_unsigned(t[3]), parse_unsigned(t[4]))

\* match s.split(':') { [left, right, top, bottom] => .., _ => Err(..) }
CropOfTokens(s, t) ==
    IF Len(t) # 4 THEN Err(CropFormatError(s))
    ELSE CropOfParsed(s, parse_unsigned(t[1]), parse_unsigned(t[2]),
                      parse_unsigned(t[3]), parse_unsigned(t[4]))

\* Crop::from_str
Crop_from_str(s) == CropOfTokens(s, Split(s, ":"))

\* a mutation of the format: the fields in the order of the struct
Crop_serialize_struct_order(c) ==
    JStr(ToDecimal(c.top) \o <<":">> \o ToDecimal(c.bottom) \o <<":">>
             \o ToDecimal(c.left) \o <<":">> \o ToDecimal(c.right))

\* Serialize for Crop: format!("{left}:{right}:{top}:{bottom}")
Crop_serialize(c) ==
    JStr(ToDecimal(c.left) \o <<":">> \o ToDecimal(c.right) \o <<":">>
             \o ToDecimal(c.top) \o <<":">> \o ToDecimal(c.bottom))

\* Deserialize for Crop: a string, then from_str
Crop_deserialize(j) ==
    IF j.k # "str" THEN Err(InvalidType) ELSE MapErrCustom(Crop_from_str(j.v))

----------------------------------------------------------------------------
(* Resolution (pipeline/resolution.rs): "<width>x<height>".                *)

Resolution(width, height) == [width |-> width, height |-> height]

\* the error of a string that is not "<width>x<height>", with the string
ResolutionFormatError(s) == [k |-> "resolution_format", v |-> s]

ResolutionOfParsed(s, width, height) ==
    IF width.ok /\ height.ok THEN Ok(Resolution(width.val.v, height.val.v))
    ELSE Err(ResolutionFormatError(s))

\* width and height are the two pieces around the one 'x'
ResolutionOfTokens(s, t) ==
    IF Len(t) # 2 THEN Err(ResolutionFormatError(s))
    ELSE ResolutionOfParsed(s, parse_unsigned(t[1]), parse_unsigned(t[2]))

Resolution_from_str(s) == ResolutionOfTokens(s, Split(s, "x"))

Resolution_serialize(r) == JStr(ToDecimal(r.width) \o <<"x">> \o ToDecimal(r.height))

Resolution_deserialize(j) ==
    IF j.k # "str" THEN Err(InvalidType) ELSE MapErrCustom(Resolution_from_str(j.v))

----------------------------------------------------------------------------
(* CommonVideoSourceProperties (video_source_properties.rs): the Helper    *)
(* struct of its Deserialize.                                              *)

\* Ok(None)
Absent == [ok |-> TRUE, val |-> None, err |-> NoErr]

\* the value under the key, null when there is none
Field(f, key) == IF key \in DOMAIN f THEN f[key] ELSE JNull

\* a field that must be present
Required(f, key, r) ==
    IF key \notin DOMAIN f THEN Err(MissingField(key)) ELSE r

\* a mutation of an Option field: the key must be present
OptionalMustBePresent(f, key, r) ==
    IF key \notin DOMAIN f THEN Err(MissingField(key))
    ELSE IF f[key].k = "null" THEN Absent
    ELSE r

\* a field of type Option<T>: None when the key is absent or null, else
\* the T decoded from the value, r
Optional(f, key, r) ==
    IF key \notin DOMAIN f THEN Absent
    ELSE IF f[key].k = "null" THEN Absent
    ELSE r

\* u32 from a JSON number
U32_deserialize(j) == IF j.k # "num" THEN Err(InvalidType) ELSE Ok(j.v)

\* Uuid from a JSON string
Uuid_deserialize(j) == IF j.k # "str" THEN Err(InvalidType) ELSE Ok(j.v)

\* Option::or
OptionOr(a, b) == IF a.k = "some" THEN a ELSE b

\* the struct of the decoded fields; the first field that failed decides
CommonOf(source_id, resolution, framerate, fps, crop) ==
    IF ~source_id.ok THEN Err(source_id.err)
    ELSE IF ~resolution.ok THEN Err(resolution.err)
    ELSE IF ~framerate.ok THEN Err(framerate.err)
    ELSE IF ~fps.ok THEN Err(fps.err)
    ELSE IF ~crop.ok THEN Err(crop.err)
    ELSE Ok([source_id |-> source_id.val.v,
             resolution |-> resolution.val,
             framerate |-> OptionOr(framerate.val, fps.val),
             crop |-> crop.val])

\* the fields of Helper, from the object f
HelperOf(f) ==
    CommonOf(Required(f, Key("source_id"), Uuid_deserialize(Field(f, Key("source_id")))),
             Optional(f, Key("resolution"), Resolution_deserialize(Field(f, Key("resolution")))),
             Optional(f, Key("framerate"), U32_deserialize(Field(f, Key("framerate")))),
             Optional(f, Key("fps"), U32_deserialize(Field(f, Key("fps")))),
             Optional(f, Key("crop"), Crop_deserialize(Field(f, Key("crop")))))

\* Deserialize for CommonVideoSourceProperties
CommonVideoSourceProperties_deserialize(j) ==
    IF j.k # "obj" THEN Err(InvalidType) ELSE HelperOf(j.v)

\* the fields of the Options that are Some: #[skip_serializing_none]
OptionalFields(c, framerate) ==
    (IF c.resolution.k = "some"
     THEN {<<Key("resolution"), Resolution_serialize(c.resolution.v)>>} ELSE {})
        \cup (IF c.framerate.k = "some" THEN {<<framerate, JNum(c.framerate.v)>>} ELSE {})
        \cup (IF c.crop.k = "some" THEN {<<Key("crop"), Crop_serialize(c.crop.v)>>} ELSE {})

\* the object of the pairs
FieldsObj(pairs) ==
    JObj([x \in { p[1] : p \in pairs } |-> (CHOOSE p \in pairs : p[1] = x)[2]])

\* a mutation of Serialize: the framerate under the legacy key
CommonVideoSourceProperties_serialize_fps(c) ==
    FieldsObj({<<Key("source_id"), JStr(c.source_id)>>} \cup OptionalFields(c, Key("fps")))

\* derive(Serialize) of CommonVideoSourceProperties with
\* #[skip_serializing_none]
CommonVideoSourceProperties_serialize(c) ==
    FieldsObj({<<Key("source_id"), JStr(c.source_id)>>}
                  \cup OptionalFields(c, Key("framerate")))

----------------------------------------------------------------------------
(* Runtimes of video sources and uri() (video_source_properties.rs).       *)

\* CameraRuntime::{Usb, Csi}
UsbCameraRuntime(uri, name) == [k |-> "usb", v |-> [uri |-> uri, name |-> name]]
CsiCameraRuntime(uri, name) == [k |-> "csi", v |-> [uri |-> uri, name |-> name]]

\* InputStreamRuntime::{UrlFile, LumeoFile, Rtsp, WebRtc}
InputUrlFileStreamRuntime(name, urls) ==
    [k |-> "url_file", v |-> [name |-> name, urls |-> urls]]
InputLumeoFileStreamRuntime(name, file_ids) ==
    [k |-> "lumeo_file", v |-> [name |-> name, file_ids |-> file_ids]]
InputRtspStreamRuntime(uri, name) == [k |-> "rtsp", v |-> [uri |-> uri, name |-> name]]
InputWebRtcStreamRuntime == [k |-> "web_rtc", v |-> 0]

\* VideoSourceProperties::{Camera, Stream} with their runtime, an Option
CameraProperties(runtime) == [source_type |-> "camera", runtime |-> runtime]
InputStreamProperties(runtime) == [source_type |-> "stream", runtime |-> runtime]

\* CameraRuntime::uri
CameraRuntime_uri(r) == r.v.uri

\* a mutation of the UrlFile arm: the first URL of the list
InputStreamRuntime_uri_first(r) ==
    CASE r.k = "lumeo_file" -> None
      [] r.k = "rtsp" -> Some(r.v.uri)
      [] r.k = "url_file" -> Some(r.v.urls[1])
      [] r.k = "web_rtc" -> None

\* InputStreamRuntime::uri
InputStreamRuntime_uri(r) ==
    CASE r.k = "lumeo_file" -> None
      [] r.k = "rtsp" -> Some(r.v.uri)
      [] r.k = "url_file" -> IF Len(r.v.urls) = 1 THEN Some(r.v.urls[1]) ELSE None
      [] r.k = "web_rtc" -> None

\* VideoSourceProperties::uri; runtime.as_ref()? returns None without a
\* runtime
VideoSourceProperties_uri(p) ==
    IF p.runtime.k = "none" THEN None
    ELSE IF p.source_type = "camera" THEN Some(CameraRuntime_uri(p.runtime.v))
    ELSE InputStreamRuntime_uri(p.runtime.v)

----------------------------------------------------------------------------
(* Decoding of stream runtimes (video_source_properties.rs): derived       *)
(* Deserialize of the runtime structs, of the externally tagged enum       *)
(* InputStreamRuntime, and of the flattened Option of it.                  *)

\* vec1::Size0Error: "Cannot produce a Vec1 with a length of zero."
Size0Error == [k |-> "size0", v |-> 0]
\* url::ParseError
UrlParseError == [k |-> "url_parse", v |-> 0]
\* serde: invalid length, invalid value
InvalidLength(n) == [k |-> "invalid_length", v |-> n]
InvalidValue == [k |-> "invalid_value", v |-> 0]
\* "no variant of enum {} found in flattened data"
NoVariantFound == [k |-> "no_variant", v |-> 0]

\* String from a JSON string
String_deserialize(j) == IF j.k # "str" THEN Err(InvalidType) ELSE Ok(j.v)

\* Url from a JSON string, parsed; the empty string is no URL
Url_deserialize(j) ==
    IF j.k # "str" THEN Err(InvalidType)
    ELSE IF j.v = <<>> THEN Err(Custom(UrlParseError))
    ELSE Ok(j.v)

\* the elements decoded, or the error of the first that failed
VecOf(rs) ==
    IF \E i \in 1..Len(rs) : ~rs[i].ok
    THEN rs[CHOOSE i \in 1..Len(rs) : ~rs[i].ok /\ \A h \in 1..(i - 1) : rs[h].ok]
    ELSE Ok([i \in 1..Len(rs) |-> rs[i].val.v])

\* Vec<Url> and Vec<Uuid> from a JSON array
VecUrl_deserialize(j) ==
    IF j.k # "arr" THEN Err(InvalidType)
    ELSE VecOf([i \in 1..Len(j.v) |-> Url_deserialize(j.v[i])])
VecUuid_deserialize(j) ==
    IF j.k # "arr" THEN Err(InvalidType)
    ELSE VecOf([i \in 1..Len(j.v) |-> Uuid_deserialize(j.v[i])])

\* a mutation of the conversion: the empty Vec is taken
Vec1_try_from_unchecked(r) == r

\* Vec1::try_from(Vec<T>), the error as a custom one
Vec1_try_from(r) ==
    IF ~r.ok THEN r
    ELSE IF r.val.v = <<>> THEN Err(Custom(Size0Error))
    ELSE r

\* Vec1<Url>, Vec1<Uuid>: the Vec, converted
Vec1Url_deserialize(j) == Vec1_try_from(VecUrl_deserialize(j))
Vec1Uuid_deserialize(j) == Vec1_try_from(VecUuid_deserialize(j))

\* the fields of a struct by name: the entries of an object, or the
\* elements of an array in the order of declaration (visit_seq)
StructFields(j, names) ==
    IF j.k = "obj" THEN j.v
    ELSE IF j.k = "arr" /\ Len(j.v) <= Len(names)
         THEN [x \in { names[i] : i \in 1..Len(j.v) } |->
                 j.v[CHOOSE i \in 1..Len(j.v) : names[i] = x]]
    ELSE EmptyObj

\* the field fails the struct: it is present and does not decode
Fails(f, names, rs, i) == names[i] \in DOMAIN f /\ ~rs[i].ok

\* the fields decoded: a field that is present and does not decode fails
\* the struct, then a field that is missing
FieldsOf(f, names, rs) ==
    IF \E i \in 1..Len(names) : Fails(f, names, rs, i)
    THEN rs[CHOOSE i \in 1..Len(names) :
               Fails(f, names, rs, i) /\ \A h \in 1..(i - 1) : ~Fails(f, names, rs, h)]
    ELSE IF \E i \in 1..Len(names) : names[i] \notin DOMAIN f
    THEN Err(MissingField(names[CHOOSE i \in 1..Len(names) :
                                   /\ names[i] \notin DOMAIN f
                                   /\ \A h \in 1..(i - 1) : names[h] \in DOMAIN f]))
    ELSE Ok([i \in 1..Len(names) |-> rs[i].val.v])

\* derive(Deserialize) of a struct: an object, or an array of as many
\* elements as there are fields
StructOf(j, names, rs) ==
    IF j.k = "arr" /\ Len(j.v) # Len(names) THEN Err(InvalidLength(Len(j.v)))
    ELSE IF j.k \notin {"obj", "arr"} THEN Err(InvalidType)
    ELSE FieldsOf(StructFields(j, names), names, rs)

UrlFileNames == <<Key("name"), Key("urls")>>
UrlFileFields(f) ==
    <<String_deserialize(Field(f, Key("name"))), Vec1Url_deserialize(Field(f, Key("urls")))>>
UrlFileOf(r) ==
    IF ~r.ok THEN r ELSE Ok(InputUrlFileStreamRuntime(r.val.v[1], r.val.v[2]))

\* Deserialize for InputUrlFileStreamRuntime
InputUrlFileStreamRuntime_deserialize(j) ==
    UrlFileOf(StructOf(j, UrlFileNames, UrlFileFields(StructFields(j, UrlFileNames))))

LumeoFileNames == <<Key("name"), Key("file_ids")>>
LumeoFileFields(f) ==
    <<String_deserialize(Field(f, Key("name"))),
      Vec1Uuid_deserialize(Field(f, Key("file_ids")))>>
LumeoFileOf(r) ==
    IF ~r.ok THEN r ELSE Ok(InputLumeoFileStreamRuntime(r.val.v[1], r.val.v[2]))

\* Deserialize for InputLumeoFileStreamRuntime
InputLumeoFileStreamRuntime_deserialize(j) ==
    LumeoFileOf(StructOf(j, LumeoFileNames, LumeoFileFields(StructFields(j, LumeoFileNames))))

RtspNames == <<Key("uri"), Key("name")>>
RtspFields(f) ==
    <<Url_deserialize(Field(f, Key("uri"))), String_deserialize(Field(f, Key("name")))>>
RtspOf(r) ==
    IF ~r.ok THEN r ELSE Ok(InputRtspStreamRuntime(r.val.v[1], r.val.v[2]))

\* Deserialize for InputRtspStreamRuntime
InputRtspStreamRuntime_deserialize(j) ==
    RtspOf(StructOf(j, RtspNames, RtspFields(StructFields(j, RtspNames))))

\* Deserialize for InputWebRtcStreamRuntime, a struct without fields
InputWebRtcStreamRuntime_deserialize(j) ==
    IF ~StructOf(j, <<>>, <<>>).ok THEN StructOf(j, <<>>, <<>>)
    ELSE Ok(InputWebRtcStreamRuntime)

\* the names of the variants, rename_all = "snake_case"
RuntimeVariants == {Key("url_file"), Key("lumeo_file"), Key("rtsp"), Key("web_rtc")}

\* the variant of the name, from its content
RuntimeVariant(name, j) ==
    CASE name = Key("url_file") -> InputUrlFileStreamRuntime_deserialize(j)
      [] name = Key("lumeo_file") -> InputLumeoFileStreamRuntime_deserialize(j)
      [] name = Key("rtsp") -> InputRtspStreamRuntime_deserialize(j)
      [] name = Key("web_rtc") -> InputWebRtcStreamRuntime_deserialize(j)
      [] OTHER -> Err(UnknownVariant(name))

\* Deserialize for InputStreamRuntime, externally tagged: a map with a
\* single key, the name of the variant; a string names a variant without
\* content, which no variant here is
InputStreamRuntime_deserialize(j) ==
    IF j.k = "str"
    THEN (IF Key(j.v) \in RuntimeVariants THEN Err(InvalidType) ELSE Err(UnknownVariant(j.v)))
    ELSE IF j.k # "obj" THEN Err(InvalidType)
    ELSE IF Cardinality(DOMAIN j.v) # 1 THEN Err(InvalidValue)
    ELSE RuntimeVariant(MinKey(DOMAIN j.v), j.v[MinKey(DOMAIN j.v)])

\* the enum among the flattened entries: the first entry named as a variant
FlatRuntime(f) ==
    IF DOMAIN f \cap RuntimeVariants = {} THEN Err(NoVariantFound)
    ELSE RuntimeVariant(MinKey(DOMAIN f \cap RuntimeVariants),
                        f[MinKey(DOMAIN f \cap RuntimeVariants)])

\* #[serde(flatten)] on an Option: None when the content does not decode
FlatOption(r) == IF r.ok THEN r ELSE Absent

\* the struct of the two flattened fields
StreamOf(common, runtime) ==
    IF ~common.ok THEN common ELSE Ok(InputStreamProperties(runtime.val))

\* Deserialize for InputStreamProperties
InputStreamProperties_deserialize(j) ==
    IF j.k # "obj" THEN Err(InvalidType)
    ELSE StreamOf(CommonVideoSourceProperties_deserialize(j), FlatOption(FlatRuntime(j.v)))

----------------------------------------------------------------------------
(* Enums written as strings: #[serde(rename_all = "snake_case")] with      *)
(* #[serde(alias = ..)] on some variants (models.rs,                       *)
(* video_source_properties.rs).                                            *)

Uppers == <<"A", "B", "C", "D", "E", "F", "G", "H", "I", "J", "K", "L", "M",
            "N", "O", "P", "Q", "R", "S", "T", "U", "V", "W", "X", "Y", "Z">>
Lowers == <<"a", "b", "c", "d", "e", "f", "g", "h", "i", "j", "k", "l", "m",
            "n", "o", "p", "q", "r", "s", "t", "u", "v", "w", "x", "y", "z">>

IsUpper(c) == \E i \in 1..Len(Uppers) : Uppers[i] = c

ToLower(c) == Lowers[CHOOSE i \in 1..Len(Uppers) : Uppers[i] = c]

RECURSIVE SnakeFrom(_, _)
\* rename_all = "snake_case": every upper-case letter is lowered, and but
\* for the first character preceded by '_'
SnakeFrom(name, i) ==
    IF i > Len(name) THEN <<>>
    ELSE IF IsUpper(name[i])
         THEN (IF i > 1 THEN <<"_">> ELSE <<>>) \o <<ToLower(name[i])>> \o SnakeFrom(name, i + 1)
    ELSE <<name[i]>> \o SnakeFrom(name, i + 1)

SnakeCase(name) == SnakeFrom(name, 1)

\* a variant and the aliases declared on it
Variant(name, alias) == [name |-> name, alias |-> alias]

EnumTypes == {"ModelColorFormat", "ModelInputOrder", "RotateDirection"}

\* the variants of the enums
Variants(type) ==
    CASE type = "ModelColorFormat" ->
           { Variant(<<"R", "g", "b">>, {<<"r", "_", "g", "_", "b">>}),
             Variant(<<"B", "g", "r">>, {<<"b", "_", "g", "_", "r">>}),
             Variant(<<"G", "r", "a", "y", "s", "c", "a", "l", "e">>, {}) }
      [] type = "ModelInputOrder" ->
           { Variant(<<"N", "c", "h", "w">>, {<<"n", "_", "c", "_", "h", "_", "w">>}),
             Variant(<<"N", "h", "w", "c">>, {<<"n", "_", "h", "_", "w", "_", "c">>}),
             Variant(<<"N", "c">>, {<<"n", "_", "c">>}) }
      [] type = "RotateDirection" ->
           { Variant(<<"C", "l", "o", "c", "k", "w", "i", "s", "e", "9", "0">>, {}),
             Variant(<<"C", "l", "o", "c", "k", "w", "i", "s", "e", "1", "8", "0">>, {<<"c", "o", "u", "n", "t", "e", "r", "_", "c", "l", "o", "c", "k", "w", "i", "s", "e", "1", "8", "0">>}),
             Variant(<<"C", "o", "u", "n", "t", "e", "r", "C", "l", "o", "c", "k", "w", "i", "s", "e", "9", "0">>, {}) }

\* the variants the string names, by its renamed name or by an alias
Named(type, text) ==
    { v \in Variants(type) : SnakeCase(v.name) = text \/ text \in v.alias }

\* the variant by its name
VariantOf(type, name) == CHOOSE v \in Variants(type) : v.name = name

\* a mutation of the attribute: the alias renames the variant
Enum_serialize_alias(type, name) ==
    IF VariantOf(type, name).alias = {} THEN JStr(SnakeCase(name))
    ELSE JStr(CHOOSE a \in VariantOf(type, name).alias : TRUE)

\* derive(Serialize): the renamed name of the variant
Enum_serialize(type, name) == JStr(SnakeCase(name))

\* derive(Deserialize): the variant the string names
Enum_deserialize(type, j) ==
    IF j.k # "str" THEN Err(InvalidType)
    ELSE IF Named(type, j.v) = {} THEN Err(UnknownVariant(j.v))
    ELSE Ok((CHOOSE v \in Named(type, j.v) : TRUE).name)

----------------------------------------------------------------------------
(* ApiError and its Deserialize (error.rs, and the older src/error.rs).    *)

\* strum serialize_all = "kebab-case": the snake case with '-' for '_'
KebabCase(name) ==
    [i \in 1..Len(SnakeCase(name)) |->
        IF SnakeCase(name)[i] = "_" THEN "-" ELSE SnakeCase(name)[i]]

\* ApiError::{GatewayDeleted, InvalidCredentials, ResourceNotFound, Other}
GatewayDeleted == [k |-> "GatewayDeleted", v |-> 0]
InvalidCredentials == [k |-> "InvalidCredentials", v |-> 0]
ResourceNotFound(r) == [k |-> "ResourceNotFound", v |-> r]
ApiError_Other(code, message) == [k |-> "Other", v |-> [code |-> code, message |-> message]]

\* ResourceNotFound::{DeploymentNotFound, Other}
DeploymentNotFound == [k |-> "DeploymentNotFound", v |-> 0]
ResourceNotFound_Other(resource) == [k |-> "Other", v |-> resource]

\* AsRefStr of ApiError: the name of the variant in kebab case
ApiError_as_ref(e) ==
    CASE e.k = "GatewayDeleted" -> KebabCase(<<"G", "a", "t", "e", "w", "a", "y", "D", "e", "l", "e", "t", "e", "d">>)
      [] e.k = "InvalidCredentials" -> KebabCase(<<"I", "n", "v", "a", "l", "i", "d", "C", "r", "e", "d", "e", "n", "t", "i", "a", "l", "s">>)
      [] e.k = "ResourceNotFound" -> KebabCase(<<"R", "e", "s", "o", "u", "r", "c", "e", "N", "o", "t", "F", "o", "u", "n", "d">>)

\* strum::ParseError::VariantNotFound
VariantNotFound == [k |-> "variant_not_found", v |-> 0]

\* EnumString of ResourceNotFound: #[strum(serialize = "deployment")]
ResourceNotFound_from_str(s) ==
    IF s = <<"d", "e", "p", "l", "o", "y", "m", "e", "n", "t">> THEN Ok(DeploymentNotFound) ELSE Err(VariantNotFound)

\* resource.parse().unwrap_or_else(|_| Other(resource))
ResourceOf(resource) ==
    IF ResourceNotFound_from_str(resource).ok THEN ResourceNotFound_from_str(resource).val.v
    ELSE ResourceNotFound_Other(resource)

\* a mutation of from_context: a context without the resource gives the
\* default, Other("")
from_context_or_default(context) ==
    IF context.k # "obj" \/ Key("resource") \notin DOMAIN context.v
       \/ context.v[Key("resource")].k # "str"
    THEN Some(ResourceNotFound_Other(<<>>))
    ELSE Some(ResourceOf(context.v[Key("resource")].v))

\* ResourceNotFound::from_context
from_context(context) ==
    IF context.k # "obj" THEN None
    ELSE IF Key("resource") \notin DOMAIN context.v THEN None
    ELSE IF context.v[Key("resource")].k # "str" THEN None
    ELSE Some(ResourceOf(context.v[Key("resource")].v))

\* the struct of the decoded fields
ResponseOf(r, context) ==
    IF ~r.ok THEN r
    ELSE Ok([code |-> r.val.v[1], message |-> r.val.v[2], context |-> context.val])

CodeMessage == <<Key("code"), Key("message")>>
CodeMessageFields(f) ==
    <<String_deserialize(Field(f, Key("code"))), String_deserialize(Field(f, Key("message")))>>

\* derive(Deserialize) of ApiServerResponse {code, message, context}
ApiServerResponse_deserialize(j) ==
    IF j.k = "arr" /\ Len(j.v) # 3 THEN Err(InvalidLength(Len(j.v)))
    ELSE IF j.k \notin {"obj", "arr"} THEN Err(InvalidType)
    ELSE ResponseOf(
             FieldsOf(StructFields(j, CodeMessage \o <<Key("context")>>), CodeMessage,
                      CodeMessageFields(StructFields(j, CodeMessage \o <<Key("context")>>))),
             Optional(StructFields(j, CodeMessage \o <<Key("context")>>), Key("context"),
                      Ok(Field(StructFields(j, CodeMessage \o <<Key("context")>>),
                               Key("context")))))

\* context.and_then(from_context).map_or_else(|| Other {code, message},
\*                                            ApiError::ResourceNotFound)
ResourceNotFoundOr(resp, r) ==
    IF r.k = "some" THEN ResourceNotFound(r.v) ELSE ApiError_Other(resp.code, resp.message)

\* the ApiError of the response, by its code
ApiErrorOf(resp) ==
    IF resp.code = ApiError_as_ref(GatewayDeleted) THEN GatewayDeleted
    ELSE IF resp.code = ApiError_as_ref(InvalidCredentials) THEN InvalidCredentials
    ELSE IF resp.code = ApiError_as_ref(ResourceNotFound(ResourceNotFound_Other(<<>>)))
         THEN ResourceNotFoundOr(resp, IF resp.context.k = "some"
                                       THEN from_context(resp.context.v) ELSE None)
    ELSE ApiError_Other(resp.code, resp.message)

ApiErrorOfResult(r) == IF ~r.ok THEN r ELSE Ok(ApiErrorOf(r.val.v))

\* Deserialize for ApiError
ApiError_deserialize(j) == ApiErrorOfResult(ApiServerResponse_deserialize(j))

\* the older ApiServerResponse {code, message}
legacy_ApiServerResponse_deserialize(j) ==
    ResponseOf(StructOf(j, CodeMessage, CodeMessageFields(StructFields(j, CodeMessage))),
               Absent)

\* the older ApiError, EnumString in kebab case; Other is disabled
legacy_ApiError_from_str(code) ==
    IF code = KebabCase(<<"G", "a", "t", "e", "w", "a", "y", "D", "e", "l", "e", "t", "e", "d">>) THEN Ok(GatewayDeleted)
    ELSE IF code = KebabCase(<<"I", "n", "v", "a", "l", "i", "d", "C", "r", "e", "d", "e", "n", "t", "i", "a", "l", "s">>) THEN Ok(InvalidCredentials)
    ELSE Err(VariantNotFound)

legacy_ApiErrorOf(resp) ==
    IF legacy_ApiError_from_str(resp.code).ok THEN legacy_ApiError_from_str(resp.code).val.v
    ELSE ApiError_Other(resp.code, resp.message)

legacy_ApiErrorOfResult(r) == IF ~r.ok THEN r ELSE Ok(legacy_ApiErrorOf(r.val.v))

\* the older Deserialize for ApiError
legacy_ApiError_deserialize(j) ==
    legacy_ApiErrorOfResult(legacy_ApiServerResponse_deserialize(j))

----------------------------------------------------------------------------
(* The codec sessions: a caller that holds one scalar document or value,   *)
(* decodes the document, or encodes the value and decodes the encoding.    *)
(* def is the document or value, wire the encoding and the value encoded.  *)

RECURSIVE Join(_, _)
\* the tokens joined by the separator
Join(t, sep) ==
    IF t = <<>> THEN <<>>
    ELSE IF Len(t) = 1 THEN t[1]
    ELSE t[1] \o <<sep>> \o Join(Tail(t), sep)

\* tokens of crop strings: empty, numbers, signed, not a number
CropTokens == { <<>>, <<"0">>, <<"1", "2">>, <<"+", "3">>, <<"-", "1">>, <<"a">> }

\* crop documents: strings of up to MaxCropTokens tokens, and no string
CropDocs ==
    { JStr(Join(t, ":")) : t \in SeqsUpTo(CropTokens, MaxCropTokens) }
        \cup {JNum(1), JNull}

CropNumbers == {0, 7, 10, 20, 30, 40}

\* Crop values
CropValues ==
    { [k |-> "crop", v |-> Crop(t, b, l, r)] :
          t \in CropNumbers, b \in CropNumbers, l \in CropNumbers, r \in CropNumbers }

\* pieces of resolution strings
ResolutionTokens == { <<>>, <<"7", "2", "0">>, <<"4", "8", "0">>, <<"-", "1">>, <<"a">> }

ResolutionSeparators == {"x", "X", ":"}

\* resolution documents: strings of up to three pieces, and no string
ResolutionDocs ==
    { JStr(Join(t, sep)) : t \in SeqsUpTo(ResolutionTokens, 3), sep \in ResolutionSeparators }
        \cup {JNum(720), JNull}

ResolutionNumbers == {0, 480, 640, 720}

ResolutionValues ==
    { [k |-> "resolution", v |-> Resolution(w, h)] :
          w \in ResolutionNumbers, h \in ResolutionNumbers }

\* the object of the key-value pairs
ObjOf(pairs) ==
    JObj([x \in { p[1] : p \in pairs } |-> (CHOOSE p \in pairs : p[1] = x)[2]])

\* what a document may hold under a key; NoDoc stands for no such key
Under(key, values) == { <<key, v>> : v \in values }

WithKeys(pairs) == { p \in pairs : p[2] # NoDoc }

\* documents of the common properties of a video source
CommonDocs ==
    { ObjOf(WithKeys({id, r, f, g, c})) :
          id \in Under(Key("source_id"), {JStr(<<"u">>), NoDoc}),
          r \in Under(Key("resolution"),
                      {NoDoc, JNull, JStr(<<"7", "2", "0", "x", "4", "8", "0">>),
                       JStr(<<"7", "2", "0">>), JNum(720)}),
          f \in Under(Key("framerate"), {NoDoc, JNull, JNum(15)}),
          g \in Under(Key("fps"), {NoDoc, JNum(30)}),
          c \in Under(Key("crop"),
                      {NoDoc, JStr(<<"3", "0", ":", "4", "0", ":", "1", "0", ":", "2", "0">>),
                       JStr(<<"1", ":", "2", ":", "3">>)}) }

\* longest sink token of the model
MaxTokenLen == 4

\* sink tokens: every string of 'a', 'b' and '.' up to MaxTokenLen
SinkPadDocs == { [k |-> "token", v |-> t] : t \in SeqsUpTo({"a", "b", "."}, MaxTokenLen) }

\* longest list of URLs or file ids of the model
MaxUrls == 3

Urls == {<<"u", "1">>, <<"u", "2">>}

FileIds == {<<"f", "1">>, <<"f", "2">>}

StreamName == <<"n">>

\* lists with at least one element
NonEmptySeqs(S, n) == SeqsUpTo(S, n) \ {<<>>}

CameraRuntimes ==
    { UsbCameraRuntime(u, StreamName) : u \in Urls }
        \cup { CsiCameraRuntime(u, StreamName) : u \in Urls }

InputStreamRuntimes ==
    { InputUrlFileStreamRuntime(StreamName, us) : us \in NonEmptySeqs(Urls, MaxUrls) }
        \cup { InputLumeoFileStreamRuntime(StreamName, fs) : fs \in NonEmptySeqs(FileIds, MaxUrls) }
        \cup { InputRtspStreamRuntime(u, StreamName) : u \in Urls }
        \cup { InputWebRtcStreamRuntime }

\* video source properties, with and without a runtime
VideoSourceValues ==
    { [k |-> "video_source", v |-> CameraProperties(Some(r))] : r \in CameraRuntimes }
        \cup { [k |-> "video_source", v |-> InputStreamProperties(Some(r))] :
                   r \in InputStreamRuntimes }
        \cup { [k |-> "video_source", v |-> CameraProperties(None)],
               [k |-> "video_source", v |-> InputStreamProperties(None)] }

\* spellings offered to the enum decoders: the renamed names, the aliases,
\* and others
EnumTexts ==
    { <<"r", "g", "b">>,
      <<"b", "g", "r">>,
      <<"g", "r", "a", "y", "s", "c", "a", "l", "e">>,
      <<"n", "c", "h", "w">>,
      <<"n", "h", "w", "c">>,
      <<"n", "c">>,
      <<"c", "l", "o", "c", "k", "w", "i", "s", "e", "9", "0">>,
      <<"c", "l", "o", "c", "k", "w", "i", "s", "e", "1", "8", "0">>,
      <<"c", "o", "u", "n", "t", "e", "r", "_", "c", "l", "o", "c", "k", "w", "i", "s", "e", "9", "0">>,
      <<"r", "_", "g", "_", "b">>,
      <<"b", "_", "g", "_", "r">>,
      <<"n", "_", "c", "_", "h", "_", "w">>,
      <<"n", "_", "h", "_", "w", "_", "c">>,
      <<"n", "_", "c">>,
      <<"c", "o", "u", "n", "t", "e", "r", "_", "c", "l", "o", "c", "k", "w", "i", "s", "e", "1", "8", "0">>,
      <<"R", "G", "B">>,
      <<"R", "g", "b">>,
      <<"r", "_", "g", "b">>,
      <<"c", "l", "o", "c", "k", "w", "i", "s", "e", "_", "1", "8", "0">>,
      <<"c", "o", "u", "n", "t", "e", "r", "c", "l", "o", "c", "k", "w", "i", "s", "e", "1", "8", "0">>,
      <<>> }

EnumDocs ==
    { [k |-> "enum_doc", v |-> [type |-> t, text |-> JStr(x)]] : t \in EnumTypes, x \in EnumTexts }
        \cup { [k |-> "enum_doc", v |-> [type |-> t, text |-> JNum(1)]] : t \in EnumTypes }

EnumValues ==
    UNION { { [k |-> "enum", v |-> [type |-> t, name |-> v.name]] : v \in Variants(t) } :
            t \in EnumTypes }

\* {}
EmptyObjDoc == JObj(EmptyObj)

\* what the list of a runtime may be: no list, and lists of up to MaxUrls
\* elements, an element that does not decode among them
ListDocs(S) ==
    { JArr([i \in 1..Len(q) |-> JStr(q[i])]) : q \in SeqsUpTo(S, MaxUrls) } \cup {JNum(1)}

\* the content of a runtime with a list
ListRuntimeDocs(key, S) ==
    { ObjOf(WithKeys({n, l})) :
          n \in Under(Key("name"), {JStr(StreamName), NoDoc}),
          l \in Under(key, ListDocs(S) \cup {NoDoc}) }

\* the entries of runtimes: the name of the variant and its content
RuntimeEntries ==
    Under(Key("url_file"), ListRuntimeDocs(Key("urls"), Urls \cup {<<>>}))
        \cup Under(Key("lumeo_file"), ListRuntimeDocs(Key("file_ids"), FileIds))
        \cup Under(Key("rtsp"),
                   { ObjOf({<<Key("uri"), JStr(<<"u", "1">>)>>, <<Key("name"), JStr(StreamName)>>}),
                     ObjOf({<<Key("name"), JStr(StreamName)>>}) })
        \cup Under(Key("web_rtc"), {EmptyObjDoc})
        \cup Under(Key("tape"), {EmptyObjDoc})

\* documents of stream runtimes
RuntimeDocs ==
    { [k |-> "runtime_doc", v |-> ObjOf({e})] : e \in RuntimeEntries }
        \cup { [k |-> "runtime_doc", v |-> j] :
                   j \in {EmptyObjDoc, JStr(<<"web_rtc">>), JStr(<<"t">>), JNum(1)} }

\* documents of stream properties: a source id and the entry of a runtime
StreamDocs ==
    { [k |-> "stream_doc", v |-> ObjOf({<<Key("source_id"), JStr(<<"u">>)>>, e})] :
          e \in RuntimeEntries }
        \cup { [k |-> "stream_doc", v |-> ObjOf({<<Key("source_id"), JStr(<<"u">>)>>})],
               [k |-> "stream_doc", v |-> ObjOf({<<Key("rtsp"), EmptyObjDoc>>})] }

\* codes, messages and contexts of error bodies
ErrorCodes ==
    { <<"g", "a", "t", "e", "w", "a", "y", "-", "d", "e", "l", "e", "t", "e", "d">>, <<"i", "n", "v", "a", "l", "i", "d", "-", "c", "r", "e", "d", "e", "n", "t", "i", "a", "l", "s">>, <<"r", "e", "s", "o", "u", "r", "c", "e", "-", "n", "o", "t", "-", "f", "o", "u", "n", "d">>,
      <<"g", "a", "t", "e", "w", "a", "y", "_", "d", "e", "l", "e", "t", "e", "d">>, <<"G", "a", "t", "e", "w", "a", "y", "D", "e", "l", "e", "t", "e", "d">>, <<"q", "u", "o", "t", "a">>, <<>> }

ErrorMessages == { <<"m">>, <<>> }

ErrorContexts ==
    { NoDoc, JNull, EmptyObjDoc, JStr(<<"d", "e", "p", "l", "o", "y", "m", "e", "n", "t">>),
      ObjOf({<<Key("resource"), JStr(<<"d", "e", "p", "l", "o", "y", "m", "e", "n", "t">>)>>}),
      ObjOf({<<Key("resource"), JStr(<<"D", "e", "p", "l", "o", "y", "m", "e", "n", "t">>)>>}),
      ObjOf({<<Key("resource"), JStr(<<"c", "a", "m", "e", "r", "a">>)>>}),
      ObjOf({<<Key("resource"), JNum(1)>>}),
      ObjOf({<<Key("kind"), JStr(<<"d", "e", "p", "l", "o", "y", "m", "e", "n", "t">>)>>}) }

\* error bodies of the server: objects with or without the three keys
ErrorBodies ==
    { ObjOf(WithKeys({c, m, x})) :
          c \in Under(Key("code"), { JStr(t) : t \in ErrorCodes } \cup {NoDoc, JNum(1)}),
          m \in Under(Key("message"), { JStr(t) : t \in ErrorMessages } \cup {NoDoc, JNull}),
          x \in Under(Key("context"), ErrorContexts) }
        \cup { JNum(1), JStr(<<"g", "a", "t", "e", "w", "a", "y", "-", "d", "e", "l", "e", "t", "e", "d">>) }

ApiErrorDocs == { [k |-> "api_error_doc", v |-> j] : j \in ErrorBodies }

CodecDocs ==
    CropDocs \cup CropValues \cup ResolutionDocs \cup ResolutionValues \cup CommonDocs
        \cup SinkPadDocs \cup VideoSourceValues \cup EnumDocs \cup EnumValues
        \cup RuntimeDocs \cup StreamDocs \cup ApiErrorDocs

CodecInit ==
    /\ def \in CodecDocs
    /\ pipeline = None /\ wire = None
    /\ op = "init" /\ arg = NoArg /\ res = NoRes

\* a document is decoded
CodecDecode(name, docs, r) ==
    /\ def \in docs
    /\ op' = name /\ arg' = def /\ res' = r
    /\ def' = Taken
    /\ UNCHANGED <<pipeline, wire>>

\* a value is encoded
CodecEncode(name, values, text) ==
    /\ def \in values
    /\ wire' = Some([text |-> text, of |-> def])
    /\ op' = name /\ arg' = def /\ res' = NoRes
    /\ def' = Taken
    /\ UNCHANGED pipeline

\* the encoding of a value is decoded
CodecReturn(name, kind, r) ==
    /\ wire.k = "some" /\ wire.v.of.k = kind
    /\ res' = r
    /\ op' = name /\ arg' = wire.v.text
    /\ UNCHANGED <<def, pipeline, wire>>

CropDeserialize == CodecDecode("crop_deserialize", CropDocs, Crop_deserialize(def))

CropSerialize == CodecEncode("crop_serialize", CropValues, Crop_serialize(def.v))

CropReturn == CodecReturn("crop_return", "crop", Crop_deserialize(wire.v.text))

ResolutionDeserialize ==
    CodecDecode("resolution_deserialize", ResolutionDocs, Resolution_deserialize(def))

ResolutionSerialize ==
    CodecEncode("resolution_serialize", ResolutionValues, Resolution_serialize(def.v))

ResolutionReturn ==
    CodecReturn("resolution_return", "resolution", Resolution_deserialize(wire.v.text))

CommonDeserialize ==
    CodecDecode("common_deserialize", CommonDocs, CommonVideoSourceProperties_deserialize(def))

\* the properties just decoded are encoded
CommonSerialize ==
    /\ op = "common_deserialize" /\ res.ok
    /\ wire' = Some([text |-> CommonVideoSourceProperties_serialize(res.val.v),
                     of |-> [k |-> "common", v |-> res.val.v]])
    /\ op' = "common_serialize"
    /\ UNCHANGED <<def, pipeline, arg, res>>

\* "<token>".parse::<SinkPad>()
SinkPadFromStr == CodecDecode("sinkpad_from_str", SinkPadDocs, SinkPad_from_str(def.v))

\* the SinkPad just parsed is rendered
SinkPadToString ==
    /\ op = "sinkpad_from_str" /\ res.ok
    /\ wire' = Some([text |-> JStr(SinkPad_to_string(res.val.v)),
                     of |-> [k |-> "sinkpad", v |-> res.val.v]])
    /\ op' = "sinkpad_to_string"
    /\ UNCHANGED <<def, pipeline, arg, res>>

\* properties.uri()
Uri ==
    /\ def \in VideoSourceValues
    /\ res' = [ok |-> TRUE, val |-> VideoSourceProperties_uri(def.v), err |-> NoErr]
    /\ op' = "uri" /\ arg' = def
    /\ def' = Taken
    /\ UNCHANGED <<pipeline, wire>>

EnumDeserialize ==
    CodecDecode("enum_deserialize", EnumDocs, Enum_deserialize(def.v.type, def.v.text))

EnumSerialize ==
    CodecEncode("enum_serialize", EnumValues, Enum_serialize(def.v.type, def.v.name))

\* the value just decoded is encoded
EnumReserialize ==
    /\ op = "enum_deserialize" /\ res.ok
    /\ wire' = Some([text |-> Enum_serialize(arg.v.type, res.val.v),
                     of |-> [k |-> "enum", v |-> [type |-> arg.v.type, name |-> res.val.v]]])
    /\ op' = "enum_reserialize"
    /\ UNCHANGED <<def, pipeline, arg, res>>

EnumReturn ==
    CodecReturn("enum_return", "enum", Enum_deserialize(wire.v.of.v.type, wire.v.text))

RuntimeDeserialize ==
    CodecDecode("runtime_deserialize", RuntimeDocs, InputStreamRuntime_deserialize(def.v))

StreamDeserialize ==
    CodecDecode("stream_deserialize", StreamDocs, InputStreamProperties_deserialize(def.v))

\* the uri() of the properties just decoded
StreamUri ==
    /\ op = "stream_deserialize" /\ res.ok
    /\ res' = [ok |-> TRUE, val |-> VideoSourceProperties_uri(res.val.v), err |-> NoErr]
    /\ op' = "stream_uri" /\ arg' = [k |-> "video_source", v |-> res.val.v]
    /\ UNCHANGED <<def, pipeline, wire>>

ApiErrorDeserialize ==
    CodecDecode("api_error_deserialize", ApiErrorDocs, ApiError_deserialize(def.v))

LegacyApiErrorDeserialize ==
    CodecDecode("legacy_api_error_deserialize", ApiErrorDocs, legacy_ApiError_deserialize(def.v))

CodecNext ==
    \/ CommonSerialize
    \/ ApiErrorDeserialize
    \/ LegacyApiErrorDeserialize
    \/ RuntimeDeserialize
    \/ StreamDeserialize
    \/ StreamUri
    \/ EnumDeserialize
    \/ EnumSerialize
    \/ EnumReserialize
    \/ EnumReturn
    \/ Uri
    \/ SinkPadFromStr
    \/ SinkPadToString
    \/ CropDeserialize
    \/ CropSerialize
    \/ CropReturn
    \/ ResolutionDeserialize
    \/ ResolutionSerialize
    \/ ResolutionReturn
    \/ CommonDeserialize

Codec == CodecInit /\ [][CodecNext]_vars

----------------------------------------------------------------------------
(* Errors of requests and verify_response (error.rs).                      *)

\* ErrorDetails::new
ErrorDetails(method, path, status) == [method |-> method, path |-> path, status |-> status]

\* a reqwest::Error: where it arose, and its status()
ReqwestError(kind, status) == [k |-> "reqwest", v |-> [kind |-> kind, status |-> status]]

\* Error::{Url, Query, Reqwest, Api, ApiEmptyResponse, Deserialization}
Error_Url(e, details) == [k |-> "Url", v |-> [source |-> e, details |-> details]]
Error_Query(e, details) == [k |-> "Query", v |-> [source |-> e, details |-> details]]
Error_Reqwest(e, details) == [k |-> "Reqwest", v |-> [source |-> e, details |-> details]]
Error_Api(e, details) == [k |-> "Api", v |-> [source |-> e, details |-> details]]
Error_ApiEmptyResponse(details) ==
    [k |-> "ApiEmptyResponse", v |-> [source |-> NoErr, details |-> details]]
Error_Deserialization(e, details) ==
    [k |-> "Deserialization", v |-> [source |-> e, details |-> details]]

\* a Response: its status and its body; the body is bytes, or fails to
\* arrive
Response(status, body) == [status |-> status, body |-> body]
BodyFailed == [k |-> "failed", v |-> 0]

\* StatusCode::is_success
is_success(status) == 200 <= status /\ status <= 299

\* response.bytes().await
Response_bytes(response) ==
    IF response.body = BodyFailed THEN Err(ReqwestError("body", None)) ELSE Ok(response.body)

\* the ApiError of parsed text
ApiErrorOfText(t) == IF ~t.ok THEN Err(Syntax) ELSE ApiError_deserialize(t.val)

\* serde_json::from_slice::<ApiError>
from_slice_ApiError(body) == ApiErrorOfText(FromText(body))

\* the error of a body that has arrived
BodyError(body, details) ==
    IF body.v = <<>> THEN Err(Error_ApiEmptyResponse(details))
    ELSE IF from_slice_ApiError(body).ok
         THEN Err(Error_Api(from_slice_ApiError(body).val.v, details))
    ELSE Err(Error_Deserialization(from_slice_ApiError(body).err, details))

\* a mutation of verify_response: an empty body is decoded like any other
StatusErrorDecodeEmpty(response, details) ==
    IF ~Response_bytes(response).ok
    THEN Err(Error_Reqwest(Response_bytes(response).err, details))
    ELSE IF from_slice_ApiError(response.body).ok
         THEN Err(Error_Api(from_slice_ApiError(response.body).val.v, details))
    ELSE Err(Error_Deserialization(from_slice_ApiError(response.body).err, details))

\* the error of a response whose status is no success
StatusError(response, details) ==
    IF ~Response_bytes(response).ok
    THEN Err(Error_Reqwest(Response_bytes(response).err, details))
    ELSE BodyError(response.body, details)

\* verify_response
verify_response(response, method, path) ==
    IF ~response.ok
    THEN Err(Error_Reqwest(response.err, ErrorDetails(method, path, response.err.v.status)))
    ELSE IF ~is_success(response.val.v.status)
         THEN StatusError(response.val.v,
                          ErrorDetails(method, path, Some(response.val.v.status)))
    ELSE Ok(response.val.v)

\* ResultExt::http_context for url::ParseError, serde_urlencoded's error
\* and reqwest::Error
http_context_url(r, method, path) ==
    IF r.ok THEN r ELSE Err(Error_Url(r.err, ErrorDetails(method, path, None)))
http_context_query(r, method, path) ==
    IF r.ok THEN r ELSE Err(Error_Query(r.err, ErrorDetails(method, path, None)))
http_context_reqwest(r, method, path) ==
    IF r.ok THEN r ELSE Err(Error_Reqwest(r.err, ErrorDetails(method, path, r.err.v.status)))

----------------------------------------------------------------------------
(* Client (lib.rs): the request operations and the error callback. A       *)
(* result travels with the errors the callback has received on its way.    *)

\* Client: its base URL and whether a callback is registered
Client(base_url, error_cb) == [base_url |-> base_url, error_cb |-> error_cb]

\* a result and the errors handed to the callback so far
Traced(r, cb) == [r |-> r, cb |-> cb]

\* .map_err(|err| self.through_cb(err)): through_cb invokes the callback,
\* when there is one, and returns the error
map_err_through_cb(client, t) ==
    IF t.r.ok \/ ~client.error_cb THEN t
    ELSE Traced(t.r, Append(t.cb, t.r.err))

\* Url::parse: a text without a scheme is a relative URL without a base
Url_parse(text) ==
    IF text # <<>> /\ text[1] = "h" THEN Ok(text) ELSE Err(UrlParseError)

\* serde_urlencoded::to_string of the query, when there is one
QueryUnsupported == [k |-> "unsupported", v |-> 0]
query_to_string(query) ==
    IF query.k = "none" THEN Absent
    ELSE IF query.v = <<"b", "a", "d">> THEN Err(QueryUnsupported)
    ELSE Ok(query.v)

\* the request builder of the URL
RequestBuilder(method, url, query) == [method |-> method, url |-> url, query |-> query]

RequestOf(url, method, path, query) ==
    IF ~url.ok THEN url ELSE Ok(RequestBuilder(method, url.val.v, query))

\* Client::request_internal
request_internal(client, method, path, query) ==
    RequestOf(http_context_url(Url_parse(client.base_url \o path), method, path),
              method, path, query)

\* Client::request
request(client, method, path, query) ==
    map_err_through_cb(client, Traced(request_internal(client, method, path, query), <<>>))

\* response.json::<T>(): the body arrives and is the text of a value
Response_json(response) ==
    IF response.body = BodyFailed THEN Err(ReqwestError("body", None))
    ELSE IF ~FromText(response.body).ok THEN Err(ReqwestError("decode", None))
    ELSE Ok(FromText(response.body).val)

\* verify_response(request_builder.send().await, method, path).await?
Verified(t, method, path, send) ==
    IF ~t.r.ok THEN t ELSE Traced(verify_response(send, method, path), t.cb)

\* .json().await.http_context(method, path)
Json(t, method, path) ==
    IF ~t.r.ok THEN t
    ELSE Traced(http_context_reqwest(Response_json(t.r.val.v), method, path), t.cb)

\* Ok(())
Unit == [k |-> "unit", v |-> 0]
Done(t) == IF ~t.r.ok THEN t ELSE Traced(Ok(Unit), t.cb)

\* the query encoded, then the rest of the operation
WithQuery(q, method, path, rest) ==
    IF ~q.ok THEN Traced(http_context_query(q, method, path), <<>>) ELSE rest

\* Client::get_internal
get_internal(client, path, query, send) ==
    WithQuery(query_to_string(query), "GET", path,
              Json(Verified(request(client, "GET", path, query_to_string(query).val),
                            "GET", path, send),
                   "GET", path))

\* Client::get
get(client, path, query, send) ==
    map_err_through_cb(client, get_internal(client, path, query, send))

\* Client::post_internal
post_internal(client, path, send) ==
    Json(Verified(request(client, "POST", path, None), "POST", path, send), "POST", path)

\* Client::post
post(client, path, send) == map_err_through_cb(client, post_internal(client, path, send))

\* Client::put_internal
put_internal(client, path, send) ==
    Json(Verified(request(client, "PUT", path, None), "PUT", path, send), "PUT", path)

\* Client::put
put(client, path, send) == map_err_through_cb(client, put_internal(client, path, send))

\* the request was built: verify_response(..).await.map_err(..)?; Ok(())
AfterRequest(client, t, method, path, send) ==
    IF ~t.r.ok THEN t
    ELSE Done(map_err_through_cb(client, Traced(verify_response(send, method, path), t.cb)))

\* Client::request_without_response_deserialization_internal
request_without_response_deserialization_internal(client, method, path, send) ==
    AfterRequest(client, map_err_through_cb(client, request(client, method, path, None)),
                 method, path, send)

\* Client::post_without_response_deserialization
post_without_response_deserialization(client, path, send) ==
    map_err_through_cb(client,
        request_without_response_deserialization_internal(client, "POST", path, send))

\* Client::put_without_response_deserialization
put_without_response_deserialization(client, path, send) ==
    map_err_through_cb(client,
        request_without_response_deserialization_internal(client, "PUT", path, send))

\* Client::put_text_internal
put_text_internal(client, path, send) ==
    Done(Verified(request(client, "PUT", path, None), "PUT", path, send))

\* Client::put_text
put_text(client, path, send) ==
    map_err_through_cb(client, put_text_internal(client, path, send))

\* Client::delete_internal
delete_internal(client, path, query, send) ==
    WithQuery(query_to_string(query), "DELETE", path,
              Done(Verified(request(client, "DELETE", path, query_to_string(query).val),
                            "DELETE", path, send)))

\* Client::delete
delete(client, path, query, send) ==
    map_err_through_cb(client, delete_internal(client, path, query, send))

----------------------------------------------------------------------------
(* The client sessions: a Client, a callback that may be registered, and   *)
(* request operations against a network that answers as it likes. def is   *)
(* the Client, wire the errors the callback received during the last       *)
(* operation.                                                              *)

\* the statuses the network answers with
Statuses == {200, 299, 300, 404}

\* the bodies the network answers with: none arriving, empty, error
\* bodies, a value that is no error body, and text that is no value
Bodies ==
    { BodyFailed, JTxt(<<>>), JTxt(<<Tok("{")>>), JTxt(ToText(JNum(1))),
      JTxt(ToText(ObjOf({<<Key("code"), JStr(<<"q", "u", "o", "t", "a">>)>>}))),
      JTxt(ToText(ObjOf({<<Key("code"), JStr(<<"g", "a", "t", "e", "w", "a", "y", "-", "d", "e", "l", "e", "t", "e", "d">>)>>,
                         <<Key("message"), JStr(<<"m">>)>>}))),
      JTxt(ToText(ObjOf({<<Key("code"), JStr(<<"r", "e", "s", "o", "u", "r", "c", "e", "-", "n", "o", "t", "-", "f", "o", "u", "n", "d">>)>>,
                         <<Key("message"), JStr(<<"m">>)>>,
                         <<Key("context"),
                           ObjOf({<<Key("resource"), JStr(<<"d", "e", "p", "l", "o", "y", "m", "e", "n", "t">>)>>})>>}))),
      JTxt(ToText(ObjOf({<<Key("code"), JStr(<<"q", "u", "o", "t", "a">>)>>,
                         <<Key("message"), JStr(<<"m">>)>>}))) }

\* what send() gives: a transport failure or a response
Sends ==
    { Err(ReqwestError("send", None)), Err(ReqwestError("send", Some(404))) }
        \cup { Ok(Response(st, b)) : st \in Statuses, b \in Bodies }

Methods == {"GET", "POST", "PUT", "DELETE"}

Paths == { <<"/", "p">> }

Queries == { None, Some(<<"q">>), Some(<<"b", "a", "d">>) }

\* base URLs: one with a scheme, one without
BaseUrls == { <<"h">>, <<>> }

ClientInit ==
    /\ def \in { Client(b, FALSE) : b \in BaseUrls }
    /\ pipeline = None /\ wire = <<>>
    /\ op = "init" /\ arg = NoArg /\ res = NoRes

\* Client::register_error_cb
RegisterErrorCb ==
    /\ def' = Client(def.base_url, TRUE)
    /\ op' = "register_error_cb" /\ arg' = NoArg /\ res' = NoRes
    /\ wire' = <<>>
    /\ UNCHANGED pipeline

\* the caller holds no result: it has just built the Client, registered
\* the callback, or taken the result of its last operation
CallerIdle == op \in {"init", "register_error_cb", "taken"}

\* the caller takes the result of the operation
Take ==
    /\ ~CallerIdle
    /\ op' = "taken" /\ arg' = NoArg /\ res' = NoRes
    /\ wire' = <<>>
    /\ UNCHANGED <<def, pipeline>>

\* the caller awaits an operation, which returns the traced result t
Returns(name, method, path, query, send, t) ==
    /\ CallerIdle
    /\ op' = name
    /\ arg' = [method |-> method, path |-> path, query |-> query, send |-> send]
    /\ res' = t.r
    /\ wire' = t.cb
    /\ UNCHANGED <<def, pipeline>>

VerifyResponse ==
    \E m \in Methods, p \in Paths, s \in Sends :
        Returns("verify_response", m, p, None, s, Traced(verify_response(s, m, p), <<>>))

Get ==
    \E p \in Paths, q \in Queries, s \in Sends :
        Returns("get", "GET", p, q, s, get(def, p, q, s))

Post ==
    \E p \in Paths, s \in Sends : Returns("post", "POST", p, None, s, post(def, p, s))

Put ==
    \E p \in Paths, s \in Sends : Returns("put", "PUT", p, None, s, put(def, p, s))

PutText ==
    \E p \in Paths, s \in Sends :
        Returns("put_text", "PUT", p, None, s, put_text(def, p, s))

Delete ==
    \E p \in Paths, q \in Queries, s \in Sends :
        Returns("delete", "DELETE", p, q, s, delete(def, p, q, s))

PostWithoutResponseDeserialization ==
    \E p \in Paths, s \in Sends :
        Returns("post_without_response_deserialization", "POST", p, None, s,
                post_without_response_deserialization(def, p, s))

PutWithoutResponseDeserialization ==
    \E p \in Paths, s \in Sends :
        Returns("put_without_response_deserialization", "PUT", p, None, s,
                put_without_response_deserialization(def, p, s))

ClientNext ==
    \/ RegisterErrorCb
    \/ Take
    \/ VerifyResponse
    \/ Get
    \/ Post
    \/ Put
    \/ PutText
    \/ Delete
    \/ PostWithoutResponseDeserialization
    \/ PutWithoutResponseDeserialization

ClientSessions == ClientInit /\ [][ClientNext]_vars

----------------------------------------------------------------------------
(* C12, C13: Crop.                                                         *)

\* the token is written as an unsigned integer: digits, after at most one
\* '+'
Unsigned(t) == t # <<>> /\ \A i \in 1..Len(t) : IsDigit(t[i])
UnsignedToken(t) == Unsigned(IF t # <<>> /\ t[1] = "+" THEN Tail(t) ELSE t)

\* the tokens are left, right, top and bottom of the crop
TokensOf(t, c) ==
    /\ Len(t) = 4
    /\ parse_unsigned(t[1]) = Ok(c.left) /\ parse_unsigned(t[2]) = Ok(c.right)
    /\ parse_unsigned(t[3]) = Ok(c.top) /\ parse_unsigned(t[4]) = Ok(c.bottom)

\* the tokens are the decimal forms of left, right, top and bottom
DecimalsOf(t, c) ==
    t = <<ToDecimal(c.left), ToDecimal(c.right), ToDecimal(c.top), ToDecimal(c.bottom)>>

\* C12: a Crop encodes to "<left>:<right>:<top>:<bottom>", Crop{top:10,
\* bottom:20,left:30,right:40} to "30:40:10:20"; decoding the encoding gives
\* the Crop back; and a decoded Crop has the first token as left, the second
\* as right, the third as top and the fourth as bottom.
C12_CropRoundTrip ==
    /\ wire.k = "some" /\ wire.v.of.k = "crop" =>
          /\ wire.v.text.k = "str"
          /\ DecimalsOf(Split(wire.v.text.v, ":"), wire.v.of.v)
          /\ wire.v.of.v = Crop(10, 20, 30, 40) =>
                 wire.v.text.v = <<"3", "0", ":", "4", "0", ":", "1", "0", ":", "2", "0">>
    /\ op = "crop_return" => res = Ok(wire.v.of.v)
    /\ (op = "crop_deserialize" /\ res.ok) => TokensOf(Split(arg.v, ":"), res.val.v)

\* Crop{top:10,bottom:20,left:30,right:40} came back from "30:40:10:20"
C12_Witness ==
    /\ op = "crop_return"
    /\ arg = JStr(<<"3", "0", ":", "4", "0", ":", "1", "0", ":", "2", "0">>)
    /\ res = Ok(Crop(10, 20, 30, 40))

\* C13: Crop decode succeeds exactly when the string splits on ':' into
\* four tokens, each written as an unsigned integer; otherwise it gives no
\* Crop and an error that carries the string.
C13_CropErrors ==
    (op = "crop_deserialize" /\ arg.k = "str") =>
        /\ res.ok <=> (/\ Len(Split(arg.v, ":")) = 4
                       /\ \A i \in 1..4 : UnsignedToken(Split(arg.v, ":")[i]))
        /\ ~res.ok =>
               /\ res.val = None
               /\ res.err.k = "custom"
               /\ res.err.v.k \in {"crop_parse", "crop_format"}
               /\ res.err.v.v = arg.v

\* "12:0:12:0:a", five tokens of which the first four are numbers, was
\* refused with the string in the error
C13_Witness ==
    /\ op = "crop_deserialize"
    /\ arg = JStr(<<"1", "2", ":", "0", ":", "1", "2", ":", "0", ":", "a">>)
    /\ ~res.ok /\ res.err = Custom(CropFormatError(arg.v))

----------------------------------------------------------------------------
(* C14: Resolution.                                                        *)

\* the string is two unsigned integers around one 'x'
WidthXHeight(t) == Len(t) = 2 /\ UnsignedToken(t[1]) /\ UnsignedToken(t[2])

\* C14: a Resolution encodes to "<width>x<height>" and decodes back from it;
\* a string of any other shape fails to decode; and the common properties
\* of a video source decode with resolution None when the field is absent.
C14_ResolutionCodec ==
    /\ (wire.k = "some" /\ wire.v.of.k = "resolution") =>
          /\ wire.v.text.k = "str"
          /\ Split(wire.v.text.v, "x") =
                 <<ToDecimal(wire.v.of.v.width), ToDecimal(wire.v.of.v.height)>>
    /\ op = "resolution_return" => res = Ok(wire.v.of.v)
    /\ (op = "resolution_deserialize" /\ arg.k = "str") =>
          /\ res.ok <=> WidthXHeight(Split(arg.v, "x"))
          /\ res.ok => /\ parse_unsigned(Split(arg.v, "x")[1]) = Ok(res.val.v.width)
                       /\ parse_unsigned(Split(arg.v, "x")[2]) = Ok(res.val.v.height)
    /\ (op = "common_deserialize" /\ Key("resolution") \notin DOMAIN arg.v) =>
          (res.ok <=> /\ Key("source_id") \in DOMAIN arg.v
                      /\ Crop_deserialize(Field(arg.v, Key("crop"))).ok
                             \/ Key("crop") \notin DOMAIN arg.v)
    /\ (op = "common_deserialize" /\ Key("resolution") \notin DOMAIN arg.v /\ res.ok) =>
          res.val.v.resolution = None

\* Resolution{720,480} came back from "720x480"
C14_Witness ==
    /\ op = "resolution_return"
    /\ arg = JStr(<<"7", "2", "0", "x", "4", "8", "0">>)
    /\ res = Ok(Resolution(720, 480))

\* properties without a resolution field decoded, with resolution None
C14_WitnessAbsent ==
    /\ op = "common_deserialize" /\ Key("resolution") \notin DOMAIN arg.v
    /\ res.ok /\ res.val.v.resolution = None /\ res.val.v.crop.k = "some"

----------------------------------------------------------------------------
(* C15: SinkPad tokens.                                                    *)

\* the token has a '.', and something before its first '.' and after it
Splittable(t) ==
    \E i \in 2..(Len(t) - 1) : t[i] = "." /\ \A j \in 1..(i - 1) : t[j] # "."

\* p is the token cut at its first '.': the node id has no '.', and node
\* id, '.' and pad name make up the token
CutAtFirstDot(t, p) ==
    /\ p.node # <<>> /\ p.name # <<>>
    /\ \A i \in 1..Len(p.node) : p.node[i] # "."
    /\ p.node \o <<".">> \o p.name = t

\* C15: a token decodes exactly when it has a '.' with something on both
\* sides of the first one; the node id is what precedes the first '.', the
\* pad name all that follows; and the decoded SinkPad renders as the token.
C15_SinkPadGrammar ==
    /\ op \in {"sinkpad_from_str", "sinkpad_to_string"} =>
          /\ res.ok <=> Splittable(arg.v)
          /\ res.ok => CutAtFirstDot(arg.v, res.val.v)
          /\ ~res.ok => res.val = None
    /\ op = "sinkpad_to_string" => wire.v.text = JStr(arg.v)

\* "a.b." was decoded as node a, pad "b.", and rendered as "a.b." again
C15_Witness ==
    /\ op = "sinkpad_to_string"
    /\ arg.v = <<"a", ".", "b", ".">>
    /\ res = Ok(SinkPad(<<"a">>, <<"b", ".">>))
    /\ wire.v.text = JStr(<<"a", ".", "b", ".">>)

----------------------------------------------------------------------------
(* C16: uri().                                                             *)

\* C16: uri() of a camera is its runtime's URI, and None without a runtime;
\* of a stream it is None without a runtime and for LumeoFile and WebRtc,
\* the URI for Rtsp, and for UrlFile the URL when there is exactly one and
\* None when there are more.
C16_UriProjection ==
    op = "uri" =>
        /\ arg.v.runtime.k = "none" => res.val = None
        /\ (arg.v.runtime.k = "some" /\ arg.v.source_type = "camera") =>
               res.val = Some(arg.v.runtime.v.v.uri)
        /\ (arg.v.runtime.k = "some" /\ arg.v.source_type = "stream") =>
               /\ arg.v.runtime.v.k \in {"lumeo_file", "web_rtc"} => res.val = None
               /\ arg.v.runtime.v.k = "rtsp" => res.val = Some(arg.v.runtime.v.v.uri)
               /\ arg.v.runtime.v.k = "url_file" =>
                      /\ Len(arg.v.runtime.v.v.urls) = 1 =>
                             res.val = Some(arg.v.runtime.v.v.urls[1])
                      /\ Len(arg.v.runtime.v.v.urls) >= 2 => res.val = None

\* a UrlFile stream with the URLs u1 and u2 gave None
C16_Witness ==
    /\ op = "uri" /\ arg.v.source_type = "stream"
    /\ arg.v.runtime = Some(InputUrlFileStreamRuntime(StreamName, <<<<"u", "1">>, <<"u", "2">>>>))
    /\ res.val = None

----------------------------------------------------------------------------
(* C17: legacy spellings of enums.                                         *)

\* the legacy spellings and the canonical ones they stand for
LegacySpellings ==
    { [type |-> "ModelColorFormat", legacy |-> <<"r", "_", "g", "_", "b">>,
       canonical |-> <<"r", "g", "b">>],
      [type |-> "ModelColorFormat", legacy |-> <<"b", "_", "g", "_", "r">>,
       canonical |-> <<"b", "g", "r">>],
      [type |-> "ModelInputOrder", legacy |-> <<"n", "_", "c", "_", "h", "_", "w">>,
       canonical |-> <<"n", "c", "h", "w">>],
      [type |-> "ModelInputOrder", legacy |-> <<"n", "_", "h", "_", "w", "_", "c">>,
       canonical |-> <<"n", "h", "w", "c">>],
      [type |-> "ModelInputOrder", legacy |-> <<"n", "_", "c">>,
       canonical |-> <<"n", "c">>],
      [type |-> "RotateDirection", legacy |-> <<"c", "o", "u", "n", "t", "e", "r", "_", "c", "l", "o", "c", "k", "w", "i", "s", "e", "1", "8", "0">>,
       canonical |-> <<"c", "l", "o", "c", "k", "w", "i", "s", "e", "1", "8", "0">>] }

\* the legacy spellings of the type
LegacyOf(type) == { l.legacy : l \in { x \in LegacySpellings : x.type = type } }

\* the entry of a legacy spelling
LegacyEntry(type, text) ==
    CHOOSE l \in LegacySpellings : l.type = type /\ l.legacy = text

\* C17: a legacy spelling decodes to the value its canonical spelling
\* decodes to; every encoding is a canonical spelling, that of the legacy
\* spelling when the value was decoded from one; and decoding the encoding
\* of a value gives the value.
C17_LegacyAliases ==
    /\ (op \in {"enum_deserialize", "enum_reserialize"} /\ arg.v.text.k = "str"
            /\ arg.v.text.v \in LegacyOf(arg.v.type)) =>
          /\ res.ok
          /\ res = Enum_deserialize(arg.v.type,
                                    JStr(LegacyEntry(arg.v.type, arg.v.text.v).canonical))
          /\ op = "enum_reserialize" =>
                 wire.v.text = JStr(LegacyEntry(arg.v.type, arg.v.text.v).canonical)
    /\ (wire.k = "some" /\ wire.v.of.k = "enum") =>
          /\ wire.v.text.k = "str"
          /\ wire.v.text.v \notin LegacyOf(wire.v.of.v.type)
    /\ op = "enum_return" => res = Ok(wire.v.of.v.name)

\* "r_g_b" was decoded as Rgb, and Rgb encoded as "rgb"
C17_Witness ==
    /\ op = "enum_reserialize" /\ arg.v.type = "ModelColorFormat"
    /\ arg.v.text = JStr(<<"r", "_", "g", "_", "b">>)
    /\ res = Ok(<<"R", "g", "b">>)
    /\ wire.v.text = JStr(<<"r", "g", "b">>)

\* Clockwise180 came back from its encoding "clockwise180"
C17_WitnessReturn ==
    /\ op = "enum_return" /\ wire.v.of.v.type = "RotateDirection"
    /\ arg = JStr(<<"c", "l", "o", "c", "k", "w", "i", "s", "e", "1", "8", "0">>)
    /\ res = Ok(<<"C", "l", "o", "c", "k", "w", "i", "s", "e", "1", "8", "0">>)

----------------------------------------------------------------------------
(* C18: unknown discriminants.                                             *)

\* the tags of a node record
TypeTag(raw) == raw.v[Key("properties")].v[Key("type")].v
SourceTag(raw) == raw.v[Key("properties")].v[Key("source_type")].v

\* the node's `type` is no node kind, or it is a video source whose
\* `source_type` is neither camera nor stream
BadTag(raw) ==
    \/ TypeTag(raw) \notin {Key("encode"), Key("video")}
    \/ /\ TypeTag(raw) = Key("video")
       /\ SourceTag(raw) \notin {Key("camera"), Key("stream")}

\* the tag value that is at fault
BadTagValue(raw) ==
    IF TypeTag(raw) = Key("video") THEN SourceTag(raw) ELSE TypeTag(raw)

\* the first node of the array that fails to parse
FirstFailing(a) ==
    CHOOSE i \in 1..Len(a) :
        ~Node_deserialize(a[i]).ok /\ \A j \in 1..(i - 1) : Node_deserialize(a[j]).ok

\* the decoded properties are the variant the tags name
Dispatched(raw, n) ==
    /\ Key(n.properties.type) = TypeTag(raw)
    /\ TypeTag(raw) = Key("video") => Key(n.properties.source) = SourceTag(raw)

\* C18: a node with a `type` outside the node kinds, or a video node with a
\* `source_type` other than camera and stream, fails to decode with an
\* error naming the tag value, and so does the pipeline holding it (with
\* that error when the node is the first to fail); a node that decodes has
\* the variant its tags name.
C18_UnknownDiscriminant ==
    (op \in DecodeOps /\ arg.k = "arr") =>
        /\ \A i \in 1..Len(arg.v) :
             /\ BadTag(arg.v[i]) =>
                    Node_deserialize(arg.v[i]) = Err(UnknownVariant(BadTagValue(arg.v[i])))
             /\ Node_deserialize(arg.v[i]).ok =>
                    Dispatched(arg.v[i], Node_deserialize(arg.v[i]).val.v)
        /\ (\E i \in 1..Len(arg.v) : BadTag(arg.v[i])) =>
             /\ ~res.ok /\ res.val = None /\ pipeline = None
             /\ BadTag(arg.v[FirstFailing(arg.v)]) =>
                    res.err = UnknownVariant(BadTagValue(arg.v[FirstFailing(arg.v)]))

\* a pipeline of an encode node and a video node of source_type "tape" was
\* refused with an error naming tape
C18_Witness ==
    /\ op = "deserialize" /\ arg.k = "arr" /\ Len(arg.v) = 2
    /\ TypeTag(arg.v[1]) = Key("encode") /\ Node_deserialize(arg.v[1]).ok
    /\ TypeTag(arg.v[2]) = Key("video") /\ SourceTag(arg.v[2]) = Key("tape")
    /\ ~res.ok /\ res.err = UnknownVariant(Key("tape"))

----------------------------------------------------------------------------
(* C19: pad names of sinks.                                                *)

\* the token with its pad name replaced
RepadToken(t, name) ==
    IF SinkPad_from_str(t.v).ok
    THEN JStr(SinkPad_to_string(SinkPad(SinkPad_from_str(t.v).val.v.node, name)))
    ELSE t

\* the node record with the pad name of every sink replaced
Repad(raw, name) ==
    JObj([x \in DOMAIN raw.v |->
            IF x # Key("wires") THEN raw.v[x]
            ELSE JObj([pd \in DOMAIN raw.v[x].v |->
                         JArr([i \in 1..Len(raw.v[x].v[pd].v) |->
                                 RepadToken(raw.v[x].v[pd].v[i], name)])])])

\* the array with the pad name of every sink replaced
RepadAll(a, name) == JArr([i \in 1..Len(a) |-> Repad(a[i], name)])

\* the pad names the nodes of the pipeline declare
DeclaredPads(p) == UNION { DOMAIN p.nodes[id].source_pads : id \in DOMAIN p.nodes }

\* the pad names the sinks of the pipeline use
SinkNames(p) ==
    UNION { UNION { { p.nodes[id].source_pads[pd][i].name :
                        i \in 1..Len(p.nodes[id].source_pads[pd]) } :
                    pd \in DOMAIN p.nodes[id].source_pads } :
            id \in DOMAIN p.nodes }

\* C19: when every node parses, the decode succeeds exactly when every
\* sink names an existing node id, whatever its pad name; replacing the pad
\* names of all sinks does not change whether the array is accepted.
C19_PadNamesUnchecked ==
    (op \in DecodeOps /\ arg.k = "arr" /\ AllParse(arg.v)) =>
        /\ res.ok <=> DanglingIds(arg.v) = {}
        /\ \A name \in {Key("o"), Key("zz")} :
               res.ok = Pipeline_deserialize(RepadAll(arg.v, name)).ok

\* a pipeline was accepted whose sink "b.h" names a pad that no node has
C19_Witness ==
    /\ op = "deserialize" /\ arg.k = "arr" /\ res.ok
    /\ Key("h") \in SinkNames(res.val.v)
    /\ Key("h") \notin DeclaredPads(res.val.v)

----------------------------------------------------------------------------
(* C20: UrlFile and LumeoFile runtimes are never empty.                    *)

\* the document is the runtime of the variant whose list is empty
EmptyList(j, variant, list) ==
    /\ j.k = "obj" /\ variant \in DOMAIN j.v
    /\ j.v[variant].k = "obj" /\ list \in DOMAIN j.v[variant].v
    /\ j.v[variant].v[list] = JArr(<<>>)

\* the runtime holds at least one element in its list
NonEmptyRuntime(r) ==
    /\ r.k = "url_file" => Len(r.v.urls) >= 1
    /\ r.k = "lumeo_file" => Len(r.v.file_ids) >= 1

\* C20: decoding a UrlFile runtime whose urls list is empty, or a LumeoFile
\* runtime whose file_ids list is empty, fails; every UrlFile that was
\* decoded, by itself or as the runtime of stream properties, holds at
\* least one URL, and every LumeoFile at least one file id.
C20_NeverEmpty ==
    /\ op = "runtime_deserialize" =>
           /\ EmptyList(arg.v, Key("url_file"), Key("urls")) => ~res.ok
           /\ EmptyList(arg.v, Key("lumeo_file"), Key("file_ids")) => ~res.ok
           /\ res.ok => NonEmptyRuntime(res.val.v)
    /\ (op = "stream_deserialize" /\ res.ok /\ res.val.v.runtime.k = "some") =>
           NonEmptyRuntime(res.val.v.runtime.v)

\* the UrlFile runtime with the name n and no URL was refused for its
\* empty list
C20_Witness ==
    /\ op = "runtime_deserialize"
    /\ arg.v = ObjOf({<<Key("url_file"),
                        ObjOf({<<Key("name"), JStr(StreamName)>>,
                               <<Key("urls"), JArr(<<>>)>>})>>})
    /\ ~res.ok /\ res.err = Custom(Size0Error)

\* a LumeoFile runtime with two file ids was decoded
C20_WitnessDecoded ==
    /\ op = "runtime_deserialize" /\ res.ok
    /\ res.val.v.k = "lumeo_file" /\ Len(res.val.v.v.file_ids) = 2

----------------------------------------------------------------------------
(* C21: ApiError from an error body.                                       *)

\* the body is an object with a string code and a string message
HasCodeMessage(j) ==
    /\ j.k = "obj"
    /\ Key("code") \in DOMAIN j.v /\ j.v[Key("code")].k = "str"
    /\ Key("message") \in DOMAIN j.v /\ j.v[Key("message")].k = "str"

\* the context of the body is an object with a string field `resource`
HasResource(j) ==
    /\ Key("context") \in DOMAIN j.v /\ j.v[Key("context")].k = "obj"
    /\ Key("resource") \in DOMAIN j.v[Key("context")].v
    /\ j.v[Key("context")].v[Key("resource")].k = "str"

ResourceIn(j) == j.v[Key("context")].v[Key("resource")].v

BodyOther(j) ==
    [k |-> "Other", v |-> [code |-> j.v[Key("code")].v, message |-> j.v[Key("message")].v]]

\* the error the body stands for, with the resources of resource-not-found
WithResources(j) ==
    IF j.v[Key("code")].v = <<"g", "a", "t", "e", "w", "a", "y", "-", "d", "e", "l", "e", "t", "e", "d">> THEN [k |-> "GatewayDeleted", v |-> 0]
    ELSE IF j.v[Key("code")].v = <<"i", "n", "v", "a", "l", "i", "d", "-", "c", "r", "e", "d", "e", "n", "t", "i", "a", "l", "s">> THEN [k |-> "InvalidCredentials", v |-> 0]
    ELSE IF j.v[Key("code")].v = <<"r", "e", "s", "o", "u", "r", "c", "e", "-", "n", "o", "t", "-", "f", "o", "u", "n", "d">> /\ HasResource(j)
         THEN [k |-> "ResourceNotFound",
               v |-> IF ResourceIn(j) = <<"d", "e", "p", "l", "o", "y", "m", "e", "n", "t">>
                     THEN [k |-> "DeploymentNotFound", v |-> 0]
                     ELSE [k |-> "Other", v |-> ResourceIn(j)]]
    ELSE BodyOther(j)

\* the error the body stands for where only the two codes are known
TwoCodes(j) ==
    IF j.v[Key("code")].v = <<"g", "a", "t", "e", "w", "a", "y", "-", "d", "e", "l", "e", "t", "e", "d">> THEN [k |-> "GatewayDeleted", v |-> 0]
    ELSE IF j.v[Key("code")].v = <<"i", "n", "v", "a", "l", "i", "d", "-", "c", "r", "e", "d", "e", "n", "t", "i", "a", "l", "s">> THEN [k |-> "InvalidCredentials", v |-> 0]
    ELSE BodyOther(j)

\* C21 as stated, of both ApiError decoders: gateway-deleted,
\* invalid-credentials, resource-not-found with a resource in the context,
\* and Other with the code and message for the rest; no failure for a body
\* with code and message.
C21_Original ==
    (op \in {"api_error_deserialize", "legacy_api_error_deserialize"}
         /\ HasCodeMessage(arg.v)) =>
        res.ok /\ res.val.v = WithResources(arg.v)

\* C21: the ApiError decoder of lumeo_api_client maps a body with a string
\* code and message as stated: gateway-deleted, invalid-credentials,
\* resource-not-found with an object context holding a string `resource`
\* (DeploymentNotFound for "deployment", Other(resource) otherwise), Other
\* {code, message} for the rest, and never fails; the older decoder of
\* src/error.rs knows the first two codes only and gives Other {code,
\* message} for every other code, resource-not-found included.
C21_ApiErrorDecoding ==
    /\ (op = "api_error_deserialize" /\ HasCodeMessage(arg.v)) =>
           res.ok /\ res.val.v = WithResources(arg.v)
    /\ (op = "legacy_api_error_deserialize" /\ HasCodeMessage(arg.v)) =>
           res.ok /\ res.val.v = TwoCodes(arg.v)

\* resource-not-found with the resource "camera" gave
\* ResourceNotFound(Other("camera"))
C21_Witness ==
    /\ op = "api_error_deserialize" /\ HasCodeMessage(arg.v)
    /\ arg.v.v[Key("code")].v = <<"r", "e", "s", "o", "u", "r", "c", "e", "-", "n", "o", "t", "-", "f", "o", "u", "n", "d">>
    /\ HasResource(arg.v) /\ ResourceIn(arg.v) = <<"c", "a", "m", "e", "r", "a">>
    /\ res.ok /\ res.val.v = ResourceNotFound(ResourceNotFound_Other(<<"c", "a", "m", "e", "r", "a">>))

\* resource-not-found with a context that is no object gave Other
C21_WitnessOther ==
    /\ op = "api_error_deserialize" /\ HasCodeMessage(arg.v)
    /\ arg.v.v[Key("code")].v = <<"r", "e", "s", "o", "u", "r", "c", "e", "-", "n", "o", "t", "-", "f", "o", "u", "n", "d">>
    /\ Key("context") \in DOMAIN arg.v.v /\ arg.v.v[Key("context")] = JStr(<<"d", "e", "p", "l", "o", "y", "m", "e", "n", "t">>)
    /\ res.ok /\ res.val.v = ApiError_Other(<<"r", "e", "s", "o", "u", "r", "c", "e", "-", "n", "o", "t", "-", "f", "o", "u", "n", "d">>, arg.v.v[Key("message")].v)

----------------------------------------------------------------------------
(* C22: verify_response.                                                   *)

\* the text is a value that is an error body with code and message
IsErrorBody(t) == t.ok /\ HasCodeMessage(t.val)

\* what the error of a response with a status that is no success is to be
Refused(response, err) ==
    /\ response.body = BodyFailed => err.k = "Reqwest"
    /\ response.body = JTxt(<<>>) => err.k = "ApiEmptyResponse"
    /\ (response.body.k = "txt" /\ response.body.v # <<>>) =>
           /\ IsErrorBody(FromText(response.body)) =>
                  /\ err.k = "Api"
                  /\ err.v.source = WithResources(FromText(response.body).val)
           /\ ~IsErrorBody(FromText(response.body)) => err.k = "Deserialization"

\* C22: verify_response returns the response, unchanged, exactly when the
\* transport succeeded and the status is a success; else it returns an
\* error: Reqwest for a transport failure, ApiEmptyResponse for an empty
\* body, Api for a body that is an API error, Deserialization for any other
\* body; the error carries the method, the path and the status.
C22_VerifyResponse ==
    op = "verify_response" =>
        /\ res.ok <=> (arg.send.ok /\ arg.send.val.v.status \in 200..299)
        /\ res.ok => res.val = arg.send.val
        /\ ~arg.send.ok =>
               /\ res.err.k = "Reqwest"
               /\ res.err.v.details =
                      [method |-> arg.method, path |-> arg.path,
                       status |-> arg.send.err.v.status]
        /\ (arg.send.ok /\ ~res.ok) =>
               /\ Refused(arg.send.val.v, res.err)
               /\ res.err.v.details =
                      [method |-> arg.method, path |-> arg.path,
                       status |-> Some(arg.send.val.v.status)]

\* a DELETE answered 404 with the body of gateway-deleted gave
\* Error::Api(GatewayDeleted) with DELETE, the path and 404
C22_Witness ==
    /\ op = "verify_response" /\ arg.method = "DELETE"
    /\ arg.send.ok /\ arg.send.val.v.status = 404
    /\ res.err = Error_Api(GatewayDeleted, ErrorDetails("DELETE", arg.path, Some(404)))

\* a response with status 299 was returned as it came
C22_WitnessSuccess ==
    /\ op = "verify_response" /\ res.ok
    /\ arg.send.val.v.status = 299 /\ res.val.v = arg.send.val.v

----------------------------------------------------------------------------
(* C23: the order of validation.                                           *)

\* the places of the sinks of the surviving nodes: node id, pad, index
Places(a) ==
    UNION { UNION { { [id |-> id, pad |-> pd, i |-> i] :
                        i \in 1..Len(Survivor(a, id).source_pads[pd]) } :
                    pd \in DOMAIN Survivor(a, id).source_pads } :
            id \in ArrayIds(a) }

\* the sink at the place
SinkAt(a, x) == Survivor(a, x.id).source_pads[x.pad][x.i]

\* the places whose sink names an id that no node of the array bears
DanglingPlaces(a) == { x \in Places(a) : SinkAt(a, x).node \notin ArrayIds(a) }

\* x is visited before y: ascending node id, then pad name, then index
Before(x, y) ==
    \/ StrLess(x.id, y.id)
    \/ x.id = y.id /\ StrLess(x.pad, y.pad)
    \/ x.id = y.id /\ x.pad = y.pad /\ x.i < y.i

\* the first dangling place in the order of the visit
FirstDangling(a) ==
    CHOOSE x \in DanglingPlaces(a) : \A y \in DanglingPlaces(a) \ {x} : Before(x, y)

\* C23: when every node of the array parses and a sink of a surviving node
\* names an absent id, the decode fails with the error naming the id of the
\* first such sink in the order: nodes by ascending id (wherever they stand
\* in the array), pads by name, sinks by their place in the list.
C23_ValidationOrder ==
    (op = "deserialize" /\ arg.k = "arr" /\ AllParse(arg.v) /\ DanglingPlaces(arg.v) # {}) =>
        /\ ~res.ok
        /\ res.err = NotFound(SinkAt(arg.v, FirstDangling(arg.v)).node)

\* [b wired to g, ab wired to h]: ab is visited first and the error names h
C23_Witness ==
    /\ op = "deserialize" /\ arg.k = "arr" /\ Len(arg.v) = 2 /\ AllParse(arg.v)
    /\ RawId(arg.v[1]) = <<"b">> /\ SinkIds(Node_deserialize(arg.v[1]).val.v) = {<<"g">>}
    /\ RawId(arg.v[2]) = <<"a", "b">> /\ SinkIds(Node_deserialize(arg.v[2]).val.v) = {<<"h">>}
    /\ res.err = NotFound(<<"h">>)

\* the pad o wired to [h, g]: the error names h, the first of the list
C23_WitnessList ==
    /\ op = "deserialize" /\ arg.k = "arr" /\ Len(arg.v) = 1 /\ AllParse(arg.v)
    /\ RawId(arg.v[1]) = <<"a", "b">>
    /\ Cardinality(Places(arg.v)) = 2
    /\ Cardinality(DOMAIN Survivor(arg.v, <<"a", "b">>).source_pads) = 1
    /\ SinkIds(Survivor(arg.v, <<"a", "b">>)) = {<<"g">>, <<"h">>}
    /\ res.err = NotFound(<<"h">>)

----------------------------------------------------------------------------
(* C24: the order of the array.                                            *)

\* the ids of the array are pairwise distinct
DistinctIds(a) == \A i, j \in 1..Len(a) : RawId(a[i]) = RawId(a[j]) => i = j

\* the arrays that are permutations of a
Permutations(a) ==
    { [i \in 1..Len(a) |-> a[f[i]]] :
          f \in { g \in [1..Len(a) -> 1..Len(a)] :
                      \A i, j \in 1..Len(a) : g[i] = g[j] => i = j } }

\* the decode of b succeeds as r did, and with the same Pipeline
SameDecode(r, b) ==
    /\ Pipeline_deserialize(JArr(b)).ok = r.ok
    /\ r.ok => Pipeline_deserialize(JArr(b)).val = r.val

\* C24: the decode of a node array with pairwise distinct ids and the decode
\* of each of its permutations both fail or both succeed with equal
\* Pipelines.
C24_OrderIndependent ==
    (op = "deserialize" /\ arg.k = "arr" /\ DistinctIds(arg.v)) =>
        \A b \in Permutations(arg.v) : SameDecode(res, b)

\* [ab wired to b, b]: the node wired to a later one was accepted
C24_Witness ==
    /\ op = "deserialize" /\ arg.k = "arr" /\ Len(arg.v) = 2 /\ AllParse(arg.v)
    /\ RawId(arg.v[1]) = <<"a", "b">> /\ RawId(arg.v[2]) = <<"b">>
    /\ SinkIds(Node_deserialize(arg.v[1]).val.v) = {<<"b">>}
    /\ res.ok /\ SameDecode(res, <<arg.v[2], arg.v[1]>>)

----------------------------------------------------------------------------
(* C25: framerate and its legacy alias fps.                                *)

\* the Option the document holds under the key: None for no key and null
Held(f, key) ==
    IF key \in DOMAIN f /\ f[key].k = "num" THEN Some(f[key].v) ELSE None

\* the document without the key
Without(j, key) == JObj([x \in DOMAIN j.v \ {key} |-> j.v[x]])

\* C25 as stated: decode takes `framerate` when the key is present, `fps`
\* when only `fps` is present, None when neither is; with both keys decode
\* succeeds with the value of `framerate`; encode always emits the key
\* `framerate` and never `fps`.
C25_Original ==
    /\ (op = "common_deserialize" /\ res.ok) =>
           /\ Key("framerate") \in DOMAIN arg.v =>
                  res.val.v.framerate = Held(arg.v, Key("framerate"))
           /\ Key("framerate") \notin DOMAIN arg.v =>
                  res.val.v.framerate = Held(arg.v, Key("fps"))
    /\ op = "common_serialize" =>
           /\ Key("framerate") \in DOMAIN wire.v.text.v
           /\ Key("fps") \notin DOMAIN wire.v.text.v

\* C25: decode takes the number under `framerate` when there is one, else
\* (the key absent or null) the number under `fps`, else None; two keys
\* never make a decode fail that succeeds without `fps`; encode puts the
\* framerate, when there is one, under the key `framerate`, emits no such
\* key when there is none, and never emits `fps`.
C25_FramerateAlias ==
    /\ (op = "common_deserialize" /\ res.ok) =>
           /\ Held(arg.v, Key("framerate")).k = "some" =>
                  res.val.v.framerate = Held(arg.v, Key("framerate"))
           /\ Held(arg.v, Key("framerate")).k = "none" =>
                  res.val.v.framerate = Held(arg.v, Key("fps"))
    /\ (op = "common_deserialize" /\ Key("fps") \in DOMAIN arg.v) =>
           res.ok = CommonVideoSourceProperties_deserialize(Without(arg, Key("fps"))).ok
    /\ op = "common_serialize" =>
           /\ Key("fps") \notin DOMAIN wire.v.text.v
           /\ wire.v.of.v.framerate.k = "some" =>
                  /\ Key("framerate") \in DOMAIN wire.v.text.v
                  /\ wire.v.text.v[Key("framerate")] = JNum(wire.v.of.v.framerate.v)
           /\ wire.v.of.v.framerate.k = "none" =>
                  Key("framerate") \notin DOMAIN wire.v.text.v

\* {framerate: 15, fps: 30} decoded with 15 and was encoded with the key
\* framerate holding 15
C25_Witness ==
    /\ op = "common_serialize"
    /\ Held(arg.v, Key("framerate")) = Some(15) /\ Held(arg.v, Key("fps")) = Some(30)
    /\ res.ok /\ res.val.v.framerate = Some(15)
    /\ wire.v.text.v[Key("framerate")] = JNum(15)

\* {fps: 30} alone decoded with 30 and was encoded under framerate
C25_WitnessAlias ==
    /\ op = "common_serialize"
    /\ Key("framerate") \notin DOMAIN arg.v /\ Held(arg.v, Key("fps")) = Some(30)
    /\ res.val.v.framerate = Some(30)
    /\ wire.v.text.v[Key("framerate")] = JNum(30)

----------------------------------------------------------------------------
(* C26: parse errors and dangling references.                              *)

\* a node of the array parses and one of its sinks names an id that no
\* node of the array bears
HasDanglingNode(a) ==
    \E i \in 1..Len(a) :
        /\ Node_deserialize(a[i]).ok
        /\ ~(SinkIds(Node_deserialize(a[i]).val.v) \subseteq ArrayIds(a))

\* C26: when a node of the array fails to parse and another has a sink
\* naming an absent id, whatever their places, the decode fails with the
\* error of the first node that fails to parse and reports no missing
\* destination.
C26_ParseErrorFirst ==
    (op = "deserialize" /\ arg.k = "arr" /\ ~AllParse(arg.v) /\ HasDanglingNode(arg.v)) =>
        /\ ~res.ok
        /\ res.err = Node_deserialize(arg.v[FirstFailing(arg.v)]).err
        /\ res.err.k # "not_found"

\* [a node wired to g, a node that does not parse]: the parse error
C26_Witness ==
    /\ op = "deserialize" /\ arg.k = "arr" /\ Len(arg.v) = 2
    /\ Node_deserialize(arg.v[1]).ok
    /\ Ghost \in SinkIds(Node_deserialize(arg.v[1]).val.v)
    /\ ~Node_deserialize(arg.v[2]).ok
    /\ ~res.ok /\ res.err = Node_deserialize(arg.v[2]).err

\* [a node that does not parse, a node wired to g]: the parse error
C26_WitnessAfter ==
    /\ op = "deserialize" /\ arg.k = "arr" /\ Len(arg.v) = 2
    /\ ~Node_deserialize(arg.v[1]).ok
    /\ Node_deserialize(arg.v[2]).ok
    /\ Ghost \in SinkIds(Node_deserialize(arg.v[2]).val.v)
    /\ ~res.ok /\ res.err = Node_deserialize(arg.v[1]).err

----------------------------------------------------------------------------
(* C27: validation sees the nodes that survive indexing.                   *)

\* a node of the array has a sink naming an absent id and a later node of
\* the array bears its id
ShadowedDangling(a) ==
    \E i, j \in 1..Len(a) :
        /\ i < j /\ RawId(a[i]) = RawId(a[j])
        /\ ~(SinkIds(Node_deserialize(a[i]).val.v) \subseteq ArrayIds(a))

\* C27: when every node parses, a node with a sink naming an absent id is
\* replaced by a later node with its id, and no sink of a surviving node
\* names an absent id, the decode succeeds and holds the surviving nodes.
C27_SurvivorsOnly ==
    (op = "deserialize" /\ arg.k = "arr" /\ AllParse(arg.v)
        /\ ShadowedDangling(arg.v) /\ DanglingIds(arg.v) = {}) =>
        /\ res.ok
        /\ \A id \in ArrayIds(arg.v) : res.val.v.nodes[id] = Survivor(arg.v, id)

\* [ab wired to g, ab]: the decode succeeded with the second ab
C27_Witness ==
    /\ op = "deserialize" /\ arg.k = "arr" /\ Len(arg.v) = 2 /\ AllParse(arg.v)
    /\ RawId(arg.v[1]) = <<"a", "b">> /\ RawId(arg.v[2]) = <<"a", "b">>
    /\ SinkIds(Node_deserialize(arg.v[1]).val.v) = {Ghost}
    /\ res.ok /\ res.val.v.nodes[<<"a", "b">>] = Node_deserialize(arg.v[2]).val.v

----------------------------------------------------------------------------
(* C28: self-references and cycles.                                        *)

\* a surviving node has a sink that names its own id
SelfWired(a) == \E id \in ArrayIds(a) : id \in SinkIds(Survivor(a, id))

\* two surviving nodes have sinks that name each other
CycleWired(a) ==
    \E x, y \in ArrayIds(a) :
        x # y /\ y \in SinkIds(Survivor(a, x)) /\ x \in SinkIds(Survivor(a, y))

\* C28: when every node parses, a surviving node is wired to itself or two
\* are wired to each other, and every sink names a node of the array, the
\* decode returns the Pipeline of the surviving nodes.
C28_CyclesAccepted ==
    (op = "deserialize" /\ arg.k = "arr" /\ AllParse(arg.v)
        /\ (SelfWired(arg.v) \/ CycleWired(arg.v)) /\ DanglingIds(arg.v) = {}) =>
        /\ res.ok
        /\ DOMAIN res.val.v.nodes = ArrayIds(arg.v)
        /\ \A id \in ArrayIds(arg.v) : res.val.v.nodes[id] = Survivor(arg.v, id)

\* a single node wired to itself was decoded
C28_Witness ==
    /\ op = "deserialize" /\ arg.k = "arr" /\ Len(arg.v) = 1 /\ AllParse(arg.v)
    /\ SelfWired(arg.v)
    /\ res.ok /\ SinkIds(res.val.v.nodes[RawId(arg.v[1])]) = {RawId(arg.v[1])}

\* [ab wired to b, b wired to ab] was decoded
C28_WitnessCycle ==
    /\ op = "deserialize" /\ arg.k = "arr" /\ Len(arg.v) = 2 /\ AllParse(arg.v)
    /\ CycleWired(arg.v) /\ ~SelfWired(arg.v)
    /\ res.ok /\ DOMAIN res.val.v.nodes = NodeIds

----------------------------------------------------------------------------
(* C29: key coherence.                                                     *)

\* every node of the map is stored under its own id
KeyCoherent(p) == \A k \in DOMAIN p.nodes : p.nodes[k].id = k

\* node_by_id(k) is nothing or a node whose id is k
ByIdCoherent(p) ==
    \A k \in NodeIds \cup {Ghost} :
        node_by_id(p, k).k = "none" \/ node_by_id(p, k).v.id = k

\* the ids of nodes() are pairwise distinct
DistinctNodes(p) ==
    \A i, j \in 1..Len(nodes(p)) : nodes(p)[i].id = nodes(p)[j].id => i = j

Coherent(p) == KeyCoherent(p) /\ ByIdCoherent(p) /\ DistinctNodes(p)

\* C29: the Pipeline the caller holds after any decode and any add_node
\* calls, and the Pipeline any decode returns, store every node under the
\* node's own id: node_by_id(k) is nothing or a node with id k, and the ids
\* of nodes() are pairwise distinct.
C29_KeyCoherence ==
    /\ pipeline.k = "some" => Coherent(pipeline.v)
    /\ (res.ok /\ res.val.k = "some") => Coherent(res.val.v)

\* a decoded Pipeline of two nodes after an add_node that replaced one
C29_Witness ==
    /\ op = "add_node" /\ def = Taken /\ pipeline.k = "some"
    /\ DOMAIN pipeline.v.nodes = NodeIds
    /\ node_by_id(pipeline.v, arg.v.id) = arg
    /\ Len(nodes(pipeline.v)) = 2 /\ Coherent(pipeline.v)

----------------------------------------------------------------------------
(* C30: the delivery of errors to the callback.                            *)

\* the public request operations of Client
RequestOps ==
    { "get", "post", "put", "delete", "put_text",
      "post_without_response_deserialization", "put_without_response_deserialization" }

\* C30 as stated: with a callback registered, a request operation that
\* returns an error has invoked the callback exactly once, with that error,
\* and one that succeeds has not invoked it.
C30_Original ==
    (op \in RequestOps /\ def.error_cb) =>
        /\ res.ok => wire = <<>>
        /\ ~res.ok => wire = <<res.err>>


\* the operations that also hand their errors to the callback inside
WithoutDeserialization ==
    { "post_without_response_deserialization", "put_without_response_deserialization" }

\* what the operations do: every invocation carries the error returned; an
\* error of URL construction is delivered twice (three times by the
\* operations without deserialization), an error of response verification
\* twice by the operations without deserialization, every other error once.
C30_Delivered ==
    (op \in RequestOps /\ def.error_cb /\ ~res.ok) =>
        /\ \A i \in 1..Len(wire) : wire[i] = res.err
        /\ Len(wire) = (IF res.err.k = "Url" THEN 2 ELSE 1)
                           + (IF op \in WithoutDeserialization THEN 1 ELSE 0)

====
